---- MODULE Spec2Model ----
(***************************************************************************)
(* Hill-climbing guidance tuner of contexttune: the guidance object, the   *)
(* budget gate, the resumable scorer and the tuning loop with its          *)
(* persisted state, under process kills and restarts.                      *)
(*                                                                         *)
(* Text is modelled as sequences of one-character strings; a guidance      *)
(* line is such a sequence and render joins lines with "\n".               *)
(***************************************************************************)
EXTENDS Integers, Sequences, FiniteSets, Bags, TLC

\* ------------------------------------------------------------------ bounds

\* Largest iterations (T) a configuration of the model asks for.
MaxT == 2
\* Largest candidates_per_iter (K) of a configuration.
MaxK == 2
\* Candidates one configuration scores in all: iterations * candidates_per_iter.
MaxSlots == 2
\* Largest tasks_per_score (N) of a configuration of the tuner under kills.
MaxTasks == 1
\* Number of task rows in the tasks file; also the largest tasks_per_score when
\* a run is compared with its uninterrupted reference run.
MaxRows == 2
\* Largest char_budget of a configuration.
MaxBudget == 3
\* Longest line list handed to truncate_to_budget on its own.
MaxLines == 3

\* --------------------------------------------------------------- variables

VARIABLES
    config,         \* TuningConfig: iterations, candidates_per_iter, tasks_per_score, char_budget
    pc,             \* position of the tuner process
    state,          \* in-memory TuningState (a placeholder when no process runs)
    best,           \* in-memory incumbent RepoGuidance
    best_score,     \* in-memory incumbent score
    t,              \* loop variable of run_tuning_loop
    candidates,     \* proposer output of the current iteration
    ci,             \* index of the candidate being scored (0-based)
    candidate,      \* the candidate being scored, with its version
    sc,             \* frame of score_candidate_detailed
    cont,           \* where run_tuning_loop continues after TuningState.save
    state_file,     \* tuning_state.json
    version_files,  \* versions/v<N>.json
    best_file,      \* best_guidance.json
    preds_log,      \* preds.jsonl per predictions directory
    metrics_log,    \* instance_metrics.jsonl per predictions directory
    det,            \* TRUE: proposer, agent and harness are deterministic functions
    memo,           \* answers the deterministic collaborators have given so far
    world,          \* "reference": uninterrupted run; "observed": run subject to kills
    ref_final,      \* tuning_state.json at the end of the reference run
    obs,            \* observations of the current process run (calls made, state at start)
    tin,            \* input of truncate_to_budget checked on its own
    tout,           \* its result
    run,            \* one call of generate_patch_with_mini_swebench: parent, child, container
    orch,           \* one call of run_experiment
    llm,            \* one call of chat_completion
    prompt,         \* one call of build_task_with_context
    evaluation,     \* one call of _default_eval
    parsing,        \* one call of _parse_candidates
    fleet,          \* two calls of generate_patch_with_mini_swebench at the same time
    scoring         \* one call of score_candidate_detailed by the tuner, on any tasks file

vars == <<config, pc, state, best, best_score, t, candidates, ci, candidate, sc, cont,
          state_file, version_files, best_file, preds_log, metrics_log,
          det, memo, world, ref_final, obs, tin, tout, run, orch, llm, prompt, evaluation, parsing, fleet, scoring>>

tunerVars == <<config, pc, state, best, best_score, t, candidates, ci, candidate, sc, cont,
               state_file, version_files, best_file, preds_log, metrics_log,
               det, memo, world, ref_final, obs>>

\* a key that an event or a frame does not carry
NoField == -1

\* an optional value: <<>> when there is none, <<x>> when it is x
Nothing == <<>>
Some(x) == <<x>>

\* ------------------------------------------------------------ text helpers

NL == "\n"
SP == " "

\* str.join: "\n".join(lines)
RECURSIVE Join(_)
Join(lines) ==
    IF Len(lines) = 0 THEN <<>>
    ELSE IF Len(lines) = 1 THEN lines[1]
    ELSE lines[1] \o <<NL>> \o Join(Tail(lines))

\* str.rstrip() over the whitespace of the model's alphabet
RECURSIVE rstrip(_)
rstrip(s) ==
    IF Len(s) > 0 /\ s[Len(s)] \in {SP, NL} THEN rstrip(SubSeq(s, 1, Len(s) - 1)) ELSE s

\* bool(s.strip()): some character is not whitespace
NonBlank(s) == \E i \in 1..Len(s) : s[i] \notin {SP, NL}

\* [str(l).rstrip() for l in xs if str(l).strip()]
RECURSIVE CleanLines(_)
CleanLines(xs) ==
    IF Len(xs) = 0 THEN <<>>
    ELSE IF NonBlank(Head(xs)) THEN <<rstrip(Head(xs))>> \o CleanLines(Tail(xs))
    ELSE CleanLines(Tail(xs))

\* ------------------------------------------------------------ RepoGuidance

RepoGuidance(repo, commit, lines, version, char_budget) ==
    [repo |-> repo, commit |-> commit, lines |-> lines, version |-> version,
     char_budget |-> char_budget]

render(g) == Join(g.lines)

char_count(g) == Len(render(g))

is_within_budget(g) == char_count(g) <= g.char_budget

\* RepoGuidance.copy(version=...)
copy_version(g, version) == RepoGuidance(g.repo, g.commit, g.lines, version, g.char_budget)

\* RepoGuidance.copy(lines=...)
copy_lines(g, lines) == RepoGuidance(g.repo, g.commit, lines, g.version, g.char_budget)

\* mutant: an if where the while belongs, one line is dropped at most
pop_once(lines, char_budget) ==
    IF Len(lines) > 0 /\ Len(Join(lines)) > char_budget
    THEN SubSeq(lines, 1, Len(lines) - 1)
    ELSE lines

\* mutant: lines are dropped from the front
RECURSIVE pop_front_until_fits(_, _)
pop_front_until_fits(lines, char_budget) ==
    IF Len(lines) > 0 /\ Len(Join(lines)) > char_budget
    THEN pop_front_until_fits(Tail(lines), char_budget)
    ELSE lines

\* the while loop of truncate_to_budget
RECURSIVE pop_until_fits(_, _)
pop_until_fits(lines, char_budget) ==
    IF Len(lines) > 0 /\ Len(Join(lines)) > char_budget
    THEN pop_until_fits(SubSeq(lines, 1, Len(lines) - 1), char_budget)
    ELSE lines

truncate_to_budget(g) ==
    IF is_within_budget(g) THEN g
    ELSE copy_lines(g, pop_until_fits(g.lines, g.char_budget))

\* ------------------------------------------------------ external answers

\* config.repo and config.commit
Repo == "owner/name"
Commit == "c0ffee"

A == <<"a">>
B == <<"b">>
AB == <<"a", "b">>

\* Texts the LLM may return to initialize_guidance, as the lines of
\* raw.strip().splitlines(): over budget, with a blank line, with trailing space.
InitOutputs == { <<AB, A>>, <<B, <<SP>>, <<"a", SP>>>> }

\* Entries of the JSON array the LLM may return to propose_candidates.
DictItem == [kind |-> "dict", lines |-> <<AB, <<SP>>, A>>]
ListItem == [kind |-> "list", lines |-> <<<<"b", SP>>>>]
BadItem == [kind |-> "other", lines |-> <<>>]
Items == {DictItem, ListItem, BadItem}

RECURSIVE SeqsUpTo(_, _)
SeqsUpTo(S, n) ==
    IF n = 0 THEN {<<>>}
    ELSE LET shorter == SeqsUpTo(S, n - 1)
         IN shorter \cup {Append(q, x) : q \in {r \in shorter : Len(r) = n - 1}, x \in S}

\* What the LLM may return to propose_candidates: text that holds no JSON
\* array, or an array of up to MaxK + 1 entries.
ProposeOutputs ==
    {[json |-> FALSE, arr |-> <<>>]}
        \cup {[json |-> TRUE, arr |-> a] : a \in SeqsUpTo(Items, MaxK + 1)}

\* What an agent run may come to: an exception or an empty result (no patch, no
\* token usage reported), or a unified diff after some token usage.
EmptyPatch == ""
AgentResults ==
    {[patch |-> EmptyPatch, tokens |-> 0], [patch |-> "diff", tokens |-> 1]}

\* --------------------------------------------------------------- proposer

\* the body of the for loop of _parse_candidates, over arr[:k]
RECURSIVE parse_items(_, _)
parse_items(arr, base) ==
    IF Len(arr) = 0 THEN <<>>
    ELSE LET item == Head(arr)
             rest == parse_items(Tail(arr), base)
         IN IF item.kind \in {"dict", "list"}
            THEN <<truncate_to_budget(
                       copy_lines(copy_version(base, base.version + 1),
                                  CleanLines(item.lines)))>> \o rest
            ELSE rest

_parse_candidates(raw, base, k) ==
    IF ~raw.json THEN <<>>
    ELSE parse_items(SubSeq(raw.arr, 1, IF Len(raw.arr) < k THEN Len(raw.arr) ELSE k), base)

\* ------------------------------------------------------------------ scorer

\* rate = resolved / total if total else 0.0, kept as the fraction <<resolved, total>>
Rate(resolved, total) == IF total = 0 THEN <<0, 1>> ELSE <<resolved, total>>

\* r1 > r2 on fractions with positive denominators
RateGT(r1, r2) == r1[1] * r2[2] > r2[1] * r1[2]

RateEQ(r1, r2) == r1[1] * r2[2] = r2[1] * r1[2]

\* load_instances(tasks_file=..., limit=n_tasks): the first n_tasks rows; the
\* instance_id of row j is j
load_instances(limit) == IF limit < MaxRows THEN limit ELSE MaxRows

\* predictions directories: <<0, 0>> is PREDS_DIR/tuning/<repo>_v0 (the init
\* guidance), <<t, ci>> is <out>/preds/iter<t>/c<ci>
InitDir == <<0, 0>>
Dirs == {InitDir} \cup ((1..MaxT) \X (0..(MaxK - 1)))

\* mutant: the predictions log is not read
read_completed_none(log) == <<>>

\* the "Resume support" block: instance_id -> model_patch of preds.jsonl
read_completed(log) ==
    [iid \in {log[j].instance_id : j \in 1..Len(log)} |->
        LET last == CHOOSE j \in 1..Len(log) :
                        /\ log[j].instance_id = iid
                        /\ \A j2 \in 1..Len(log) : log[j2].instance_id = iid => j2 <= j
        IN log[last].model_patch]

\* the same block: instance_id -> token usage of instance_metrics.jsonl
read_completed_metrics(log) ==
    [iid \in {log[j].instance_id : j \in 1..Len(log)} |->
        LET last == CHOOSE j \in 1..Len(log) :
                        /\ log[j].instance_id = iid
                        /\ \A j2 \in 1..Len(log) : log[j2].instance_id = iid => j2 <= j
        IN log[last].token_usage]

\* locals of score_candidate_detailed on entry to its for loop
ScorerEntry(dir, guidance) ==
    [dir |-> dir,
     guidance_text |-> render(guidance),
     n |-> load_instances(config.tasks_per_score),
     completed |-> read_completed(preds_log[dir]),
     completed_metrics |-> read_completed_metrics(metrics_log[dir]),
     i |-> 1,
     resolved |-> 0,
     total |-> 0,
     non_empty_patches |-> 0,
     token_usage |-> 0,
     patch |-> EmptyPatch,
     tokens |-> 0]

\* bool(patch and patch.strip())
patch_non_empty(patch) == patch # EmptyPatch

\* ------------------------------------------------- deterministic answers

\* A deterministic collaborator repeats the answer it gave to the same input.
Consistent(f, key, v) == (det /\ key \in DOMAIN f) => v = f[key]

Remember(f, key, v) == IF det /\ key \notin DOMAIN f THEN f @@ (key :> v) ELSE f

NoMemo == [init |-> <<>>, propose |-> <<>>, agent |-> <<>>, eval |-> <<>>]

\* ------------------------------------------------------------- TuningState

\* tuning_state.json: missing, opened for writing (truncated) and not yet
\* written, or holding a snapshot
Absent == [status |-> "absent", data |-> Nothing]
Partial == [status |-> "partial", data |-> Nothing]
Snapshot(s) == [status |-> "ok", data |-> Some(s)]

\* TuningState(repo=config.repo)
NewTuningState ==
    [best_version |-> 0, best_score |-> <<0, 1>>, history |-> <<>>,
     completed_iterations |-> 0]

InitEvent(score, resolved, total) ==
    [version |-> 0, score |-> score, type |-> "init", iteration |-> NoField,
     candidate_index |-> NoField, resolved |-> resolved, total |-> total,
     non_empty_patches |-> NoField, token_usage |-> NoField]

CandidateEvent(version, score, iteration, index, result) ==
    [version |-> version, score |-> score, type |-> "candidate", iteration |-> iteration,
     candidate_index |-> index, resolved |-> result.resolved, total |-> result.total,
     non_empty_patches |-> result.non_empty_patches, token_usage |-> result.token_usage]

Running == {"init", "score", "flush", "loop", "cand", "checkpoint", "saving"}

\* completions: runs of run_tuning_loop (or calls of the scorer, when it is
\* run alone) that have returned on these directories, counted up to 2
\* persisted: the history of the last tuning_state.json that was written whole
\* recorded_for: for each line of a preds.jsonl that a later run of the tuner
\* may read, by directory and instance, the guidance text the agent was given
\* when the line was appended
NoObs == [completions |-> 0, persisted |-> <<>>, recorded_for |-> <<>>]

\* a run that finds completed_iterations = n in tuning_state.json reads only
\* the preds.jsonl of the iterations after n
live_records(recorded, n) ==
    [key \in {k \in DOMAIN recorded : k[1][1] > n} |-> recorded[key]]

\* placeholders of the tuner's memory while no process runs
NoGuidance == RepoGuidance("", "", <<>>, 0, 0)
NoFrame ==
    [dir |-> InitDir, guidance_text |-> <<>>, n |-> 0, completed |-> <<>>,
     completed_metrics |-> <<>>, i |-> 0, resolved |-> 0, total |-> 0,
     non_empty_patches |-> 0, token_usage |-> 0, patch |-> EmptyPatch, tokens |-> 0]

\* the tuner's memory when no process runs
MemoryCleared ==
    /\ state' = NewTuningState
    /\ best' = NoGuidance
    /\ best_score' = <<0, 1>>
    /\ t' = 0
    /\ candidates' = <<>>
    /\ ci' = 0
    /\ candidate' = NoGuidance
    /\ sc' = NoFrame
    /\ cont' = ""

\* the agent-run driver, the orchestrator and the LLM client before any call
NoRun == [pc |-> "idle"]
NoExperiment == [pc |-> "idle"]
NoCall == [pc |-> "idle"]
NoPrompt == [pc |-> "idle"]
NoEvaluation == [pc |-> "idle"]
NoParsing == [pc |-> "idle"]
NoFleet == [pc |-> "idle"]
NoScoring == [pc |-> "idle"]

ConfigsUpTo(n_tasks) ==
    {c \in [iterations : 0..MaxT, candidates_per_iter : 1..MaxK,
            tasks_per_score : 1..n_tasks, char_budget : 1..MaxBudget] :
        c.iterations * c.candidates_per_iter <= MaxSlots}

Configs == ConfigsUpTo(MaxTasks)

TunerIdle ==
    /\ pc = "idle"
    /\ state = NewTuningState
    /\ best = NoGuidance
    /\ best_score = <<0, 1>>
    /\ t = 0
    /\ candidates = <<>>
    /\ ci = 0
    /\ candidate = NoGuidance
    /\ sc = NoFrame
    /\ cont = ""
    /\ state_file = Absent
    /\ version_files = <<>>
    /\ best_file = Nothing
    /\ preds_log = [d \in Dirs |-> <<>>]
    /\ metrics_log = [d \in Dirs |-> <<>>]
    /\ ref_final = Absent
    /\ obs = NoObs
    /\ run = NoRun
    /\ orch = NoExperiment
    /\ llm = NoCall
    /\ prompt = NoPrompt
    /\ evaluation = NoEvaluation
    /\ parsing = NoParsing
    /\ fleet = NoFleet
    /\ scoring = NoScoring

\* A fresh output directory, collaborators free to answer differently each time.
Init ==
    /\ config \in Configs
    /\ TunerIdle
    /\ memo = NoMemo
    /\ det = FALSE
    /\ world = "observed"
    /\ tin = NoGuidance
    /\ tout = Nothing

\* ------------------------------------------------------------ the process

\* mutant: a resumed run starts over at iteration 1
start_iter_restart(st) == 1

\* start_iter = state.completed_iterations + 1
start_iter(st) == st.completed_iterations + 1

\* run_tuning_loop up to the end of "resume or init"; a resumed run goes on at
\* start_iter
Start ==
    /\ pc = "idle" \/ (pc = "done" /\ world = "observed")
    /\ IF state_file.status = "partial"
       THEN \* TuningState.load: json.loads raises on the truncated file
            /\ pc' = "failed"
            /\ UNCHANGED <<state, best, best_score, t>>
       ELSE IF /\ state_file.status = "ok"
               /\ state_file.data[1].best_version \in DOMAIN version_files
       THEN /\ state' = state_file.data[1]
            /\ best' = version_files[state_file.data[1].best_version]
            /\ best_score' = state_file.data[1].best_score
            /\ t' = start_iter(state_file.data[1])
            /\ pc' = "loop"
       ELSE /\ state' = NewTuningState
            /\ pc' = "init"
            /\ UNCHANGED <<best, best_score, t>>
    /\ UNCHANGED <<config, candidates, ci, candidate, sc, cont, state_file, version_files,
                   best_file, preds_log, metrics_log, det, memo, world, ref_final, obs,
                   tin, tout, run, orch, llm, prompt, evaluation, parsing, fleet, scoring>>

\* _init_and_score up to the first task: initialize_guidance, g0.save, scorer entry
InitGuidance ==
    /\ pc = "init"
    /\ \E raw \in InitOutputs :
         LET g0 == truncate_to_budget(
                       RepoGuidance(Repo, Commit, CleanLines(raw), 0, config.char_budget))
         IN /\ Consistent(memo.init, "g0", raw)
            /\ memo' = [memo EXCEPT !.init = Remember(memo.init, "g0", raw)]
            /\ version_files' = (0 :> g0) @@ version_files
            /\ candidate' = g0
            /\ sc' = ScorerEntry(InitDir, g0)
    /\ pc' = "score"
    /\ UNCHANGED <<config, state, best, best_score, t, candidates, ci, cont, state_file,
                   best_file, preds_log, metrics_log, det, world, ref_final, obs, tin, tout, run, orch, llm, prompt, evaluation, parsing, fleet, scoring>>

\* _default_eval: no harness call for an empty patch, else the harness verdict
EvalOutcomes(patch) == IF patch_non_empty(patch) THEN BOOLEAN ELSE {FALSE}

\* the tail of the for loop body: evaluate and count
Counted(frame, patch, tokens, passed) ==
    [frame EXCEPT !.i = @ + 1,
                  !.total = @ + 1,
                  !.non_empty_patches = IF patch_non_empty(patch) THEN @ + 1 ELSE @,
                  !.token_usage = @ + tokens,
                  !.resolved = IF passed THEN @ + 1 ELSE @,
                  !.patch = EmptyPatch,
                  !.tokens = 0]

Evaluated(iid, patch, passed) ==
    /\ passed \in EvalOutcomes(patch)
    /\ patch_non_empty(patch) => Consistent(memo.eval, <<iid, patch>>, passed)

\* mutant: a task found in the log is counted with an empty patch
resumed_patch_blank(frame, iid) == EmptyPatch

\* patch = completed[iid]
resumed_patch(frame, iid) == frame.completed[iid]

\* prev = completed_metrics.get(iid, {}); prev.get("token_usage", {})
resumed_tokens(frame, iid) ==
    IF iid \in DOMAIN frame.completed_metrics THEN frame.completed_metrics[iid] ELSE 0

\* one pass of the for loop for a task found in preds.jsonl
ScoreCompleted ==
    /\ pc = "score"
    /\ sc.i <= sc.n
    /\ sc.i \in DOMAIN sc.completed
    /\ LET patch == resumed_patch(sc, sc.i)
       IN \E passed \in BOOLEAN :
            /\ Evaluated(sc.i, patch, passed)
            /\ memo' = IF patch_non_empty(patch)
                       THEN [memo EXCEPT !.eval = Remember(memo.eval, <<sc.i, patch>>, passed)]
                       ELSE memo
            /\ sc' = Counted(sc, patch, resumed_tokens(sc, sc.i), passed)
    /\ UNCHANGED <<config, pc, state, best, best_score, t, candidates, ci, candidate, cont,
                   state_file, version_files, best_file, preds_log, metrics_log,
                   det, world, ref_final, obs, tin, tout, run, orch, llm, prompt, evaluation, parsing, fleet, scoring>>

\* the agent run of a task not in preds.jsonl, and the append to preds.jsonl
AgentRun ==
    /\ pc = "score"
    /\ sc.i <= sc.n
    /\ sc.i \notin DOMAIN sc.completed
    /\ \E result \in AgentResults :
         /\ Consistent(memo.agent, <<sc.guidance_text, sc.i>>, result)
         /\ memo' = [memo EXCEPT !.agent = Remember(memo.agent, <<sc.guidance_text, sc.i>>, result)]
         /\ preds_log' = [preds_log EXCEPT ![sc.dir] =
                             Append(@, [instance_id |-> sc.i, model_patch |-> result.patch])]
         /\ sc' = [sc EXCEPT !.patch = result.patch, !.tokens = result.tokens]
    /\ obs' = [obs EXCEPT !.recorded_for = (<<sc.dir, sc.i>> :> sc.guidance_text) @@ @]
    /\ pc' = "flush"
    /\ UNCHANGED <<config, state, best, best_score, t, candidates, ci, candidate, cont,
                   state_file, version_files, best_file, metrics_log,
                   det, world, ref_final, tin, tout, run, orch, llm, prompt, evaluation, parsing, fleet, scoring>>

\* the record of the task at hand appended to instance_metrics.jsonl, a wrong
\* variant that writes nothing first
append_metrics_skipped(log, frame) == log

append_metrics(log, frame) ==
    Append(log, [instance_id |-> frame.i,
                 patch_non_empty |-> patch_non_empty(frame.patch),
                 token_usage |-> frame.tokens])

\* the append to instance_metrics.jsonl, then evaluate and count
FlushMetrics ==
    /\ pc = "flush"
    /\ metrics_log' = [metrics_log EXCEPT ![sc.dir] = append_metrics(@, sc)]
    /\ \E passed \in BOOLEAN :
         /\ Evaluated(sc.i, sc.patch, passed)
         /\ memo' = IF patch_non_empty(sc.patch)
                    THEN [memo EXCEPT !.eval = Remember(memo.eval, <<sc.i, sc.patch>>, passed)]
                    ELSE memo
         /\ sc' = Counted(sc, sc.patch, sc.tokens, passed)
    /\ pc' = "score"
    /\ UNCHANGED <<config, state, best, best_score, t, candidates, ci, candidate, cont,
                   state_file, version_files, best_file, preds_log,
                   det, world, ref_final, obs, tin, tout, run, orch, llm, prompt, evaluation, parsing, fleet, scoring>>

\* the scorer has returned g0's result: record the init event, state.save
FinishInit ==
    /\ pc = "score"
    /\ sc.i > sc.n
    /\ sc.dir = InitDir
    /\ LET g0_score == Rate(sc.resolved, sc.total)
       IN /\ best' = candidate
          /\ best_score' = g0_score
          /\ state' = [state EXCEPT
                          !.best_version = candidate.version,
                          !.best_score = g0_score,
                          !.history = Append(@, InitEvent(g0_score, sc.resolved, sc.total))]
    /\ state_file' = Partial
    /\ cont' = "start"
    /\ pc' = "saving"
    /\ UNCHANGED <<config, t, candidates, ci, candidate, sc, version_files, best_file,
                   preds_log, metrics_log, det, memo, world, ref_final, obs, tin, tout, run, orch, llm, prompt, evaluation, parsing, fleet, scoring>>

\* TuningState.save: write_text puts the snapshot into the file it has opened;
\* the loop goes on at start_iter, or at the next t
CompleteSave ==
    /\ pc = "saving"
    /\ state_file' = Snapshot(state)
    /\ obs' = [obs EXCEPT !.persisted = state.history,
                          !.recorded_for = live_records(@, state.completed_iterations)]
    /\ t' = IF cont = "start" THEN start_iter(state) ELSE t + 1
    /\ cont' = ""
    /\ pc' = "loop"
    /\ UNCHANGED <<config, state, best, best_score, candidates, ci, candidate, sc,
                   version_files, best_file, preds_log, metrics_log,
                   det, memo, world, ref_final, tin, tout, run, orch, llm, prompt, evaluation, parsing, fleet, scoring>>

\* mutant: the checkpoint records the iteration before the one that ended
mark_completed_behind(st, iteration) == [st EXCEPT !.completed_iterations = iteration - 1]

\* mutant: the checkpoint records the iteration after the one that ended
mark_completed_ahead(st, iteration) == [st EXCEPT !.completed_iterations = iteration + 1]

\* mutant: the end of a round is also logged as an event of the history
mark_completed_logged(st, iteration) ==
    [st EXCEPT !.completed_iterations = iteration,
               !.history = Append(@, [version |-> st.best_version, score |-> st.best_score,
                                      type |-> "skipped", iteration |-> iteration,
                                      candidate_index |-> NoField, resolved |-> NoField,
                                      total |-> NoField, non_empty_patches |-> NoField,
                                      token_usage |-> NoField])]

\* state.completed_iterations = t
mark_completed(st, iteration) == [st EXCEPT !.completed_iterations = iteration]

\* (version, score) pairs handed to the proposer
score_history(history) ==
    [j \in 1..Len(history) |-> <<history[j].version, history[j].score>>]

\* the head of an iteration: propose_candidates; with no candidate the iteration
\* is recorded as completed (state.save) and skipped
Propose ==
    /\ pc = "loop"
    /\ t <= config.iterations
    /\ \E got \in {_parse_candidates(raw, best, config.candidates_per_iter) :
                      raw \in ProposeOutputs} :
         LET key == <<best, best_score, score_history(state.history)>>
         IN /\ Consistent(memo.propose, key, got)
            /\ memo' = [memo EXCEPT !.propose = Remember(memo.propose, key, got)]
            /\ candidates' = got
            /\ IF Len(got) = 0
               THEN /\ state' = mark_completed(state, t)
                    /\ state_file' = Partial
                    /\ cont' = "next"
                    /\ pc' = "saving"
               ELSE /\ pc' = "cand"
                    /\ UNCHANGED <<state, state_file, cont>>
    /\ ci' = 0
    /\ UNCHANGED <<config, best, best_score, t, candidate, sc, version_files, best_file,
                   preds_log, metrics_log, det, world, ref_final, obs, tin, tout, run, orch, llm, prompt, evaluation, parsing, fleet, scoring>>

\* mutant: the first candidate of a round takes the version of the incumbent
candidate_version_from_best(best_version, index) == best_version + index

\* candidate_version = best.version + ci + 1
candidate_version(best_version, index) == best_version + index + 1

\* the head of the candidate loop: version the candidate and enter the scorer
BeginCandidate ==
    /\ pc = "cand"
    /\ candidate' = copy_version(candidates[ci + 1], candidate_version(best.version, ci))
    /\ sc' = ScorerEntry(<<t, ci>>, candidate')
    /\ pc' = "score"
    /\ UNCHANGED <<config, state, best, best_score, t, candidates, ci, cont, state_file,
                   version_files, best_file, preds_log, metrics_log,
                   det, memo, world, ref_final, obs, tin, tout, run, orch, llm, prompt, evaluation, parsing, fleet, scoring>>

\* mutant: a tie replaces the incumbent
is_improved_or_tied(c_score, incumbent_score) == ~RateGT(incumbent_score, c_score)

\* is_improved = c_score > best_score
is_improved(c_score, incumbent_score) == RateGT(c_score, incumbent_score)

\* mutant: state.best_score is not updated on adoption
record_candidate_stale(st, event, improved) ==
    IF improved
    THEN [st EXCEPT !.history = Append(@, event), !.best_version = event.version]
    ELSE [st EXCEPT !.history = Append(@, event)]

\* mutant: the history is rebuilt from the init event and the new event
record_candidate_fresh(st, event, improved) ==
    IF improved
    THEN [st EXCEPT !.history = <<st.history[1], event>>,
                    !.best_version = event.version, !.best_score = event.score]
    ELSE [st EXCEPT !.history = <<st.history[1], event>>]

\* state.history.append(...) and, when improved, state.best_version and
\* state.best_score
record_candidate(st, event, improved) ==
    IF improved
    THEN [st EXCEPT !.history = Append(@, event),
                    !.best_version = event.version,
                    !.best_score = event.score]
    ELSE [st EXCEPT !.history = Append(@, event)]

\* the scorer has returned a candidate's result: append its event, save its
\* guidance file, adopt it on strict improvement
FinishCandidate ==
    /\ pc = "score"
    /\ sc.i > sc.n
    /\ sc.dir # InitDir
    /\ LET c_score == Rate(sc.resolved, sc.total)
           event == CandidateEvent(candidate.version, c_score, t, ci, sc)
       IN /\ version_files' = (candidate.version :> candidate) @@ version_files
          /\ state' = record_candidate(state, event, is_improved(c_score, best_score))
          /\ IF is_improved(c_score, best_score)
             THEN /\ best' = candidate
                  /\ best_score' = c_score
             ELSE UNCHANGED <<best, best_score>>
    /\ ci' = ci + 1
    /\ pc' = IF ci + 1 < Len(candidates) THEN "cand" ELSE "checkpoint"
    /\ UNCHANGED <<config, t, candidates, candidate, sc, cont, state_file, best_file,
                   preds_log, metrics_log, det, memo, world, ref_final, obs, tin, tout, run, orch, llm, prompt, evaluation, parsing, fleet, scoring>>

\* the end of an iteration: state.completed_iterations = t, state.save
Checkpoint ==
    /\ pc = "checkpoint"
    /\ state' = mark_completed(state, t)
    /\ state_file' = Partial
    /\ cont' = "next"
    /\ pc' = "saving"
    /\ UNCHANGED <<config, best, best_score, t, candidates, ci, candidate, sc,
                   version_files, best_file, preds_log, metrics_log,
                   det, memo, world, ref_final, obs, tin, tout, run, orch, llm, prompt, evaluation, parsing, fleet, scoring>>

\* "save final best": best.save(best_guidance.json), and the process returns
Finalize ==
    /\ pc = "loop"
    /\ t > config.iterations
    /\ best_file' = Some(best)
    /\ pc' = "done"
    /\ MemoryCleared
    /\ obs' = [obs EXCEPT !.completions = IF @ < 2 THEN @ + 1 ELSE @]
    /\ UNCHANGED <<config, state_file, version_files, preds_log, metrics_log,
                   det, memo, world, ref_final, tin, tout, run, orch, llm, prompt, evaluation, parsing, fleet, scoring>>

\* the process is killed; its memory is lost, the files stay as they are
Kill ==
    /\ pc \in Running
    /\ world = "observed"
    /\ pc' = "idle"
    /\ MemoryCleared
    /\ UNCHANGED <<config, state_file, version_files, best_file, preds_log, metrics_log,
                   det, memo, world, ref_final, obs, tin, tout, run, orch, llm, prompt, evaluation, parsing, fleet, scoring>>

Next ==
    \/ Start
    \/ InitGuidance
    \/ ScoreCompleted
    \/ AgentRun
    \/ FlushMetrics
    \/ FinishInit
    \/ CompleteSave
    \/ Propose
    \/ BeginCandidate
    \/ FinishCandidate
    \/ Checkpoint
    \/ Finalize
    \/ Kill

Spec == Init /\ [][Next]_vars

\* runs that nothing kills: their scorers find no predictions log to resume from
NextRun ==
    \/ Start
    \/ InitGuidance
    \/ AgentRun
    \/ FlushMetrics
    \/ FinishInit
    \/ CompleteSave
    \/ Propose
    \/ BeginCandidate
    \/ FinishCandidate
    \/ Checkpoint
    \/ Finalize

SpecRun == Init /\ [][NextRun]_vars

\* ---------------------------------------------------------------------------
\* Building a TuningConfig: __post_init__ raises ValueError on values out of
\* range, and the caller never gets a config to tune with.
\* ---------------------------------------------------------------------------

MAX_TUNING_ITERATIONS == 20

\* TRUE when __post_init__ raises nothing; a wrong variant without the cap first
__post_init__uncapped(c) ==
    /\ ~(c.iterations < 0)
    /\ ~(c.candidates_per_iter <= 0)
    /\ ~(c.tasks_per_score <= 0)

__post_init__(c) ==
    /\ ~(c.iterations < 0)
    /\ ~(c.iterations > MAX_TUNING_ITERATIONS)
    /\ ~(c.candidates_per_iter <= 0)
    /\ ~(c.tasks_per_score <= 0)

\* the values a caller may pass
RawConfigs ==
    [iterations : (-1..MaxT) \cup {MAX_TUNING_ITERATIONS, MAX_TUNING_ITERATIONS + 1},
     candidates_per_iter : -1..MaxK,
     tasks_per_score : -1..MaxTasks,
     char_budget : {MaxBudget}]

\* TuningConfig(...) between two runs: a rejected config leaves the caller
\* with an exception; an accepted one is tuned with when it is within the
\* bounds of this model
Configure ==
    /\ pc \in {"idle", "done", "rejected", "configured"}
    /\ world = "observed"
    /\ \E c \in RawConfigs :
        IF __post_init__(c)
        THEN /\ config' = c
             /\ pc' = IF c \in Configs THEN "idle" ELSE "configured"
        ELSE /\ pc' = "rejected"
             /\ UNCHANGED config
    /\ UNCHANGED <<state, best, best_score, t, candidates, ci, candidate, sc, cont,
                   state_file, version_files, best_file, preds_log, metrics_log,
                   det, memo, world, ref_final, obs, tin, tout, run, orch, llm, prompt, evaluation, parsing, fleet, scoring>>

NextConfig ==
    \/ Configure
    \/ Start
    \/ InitGuidance
    \/ AgentRun
    \/ FlushMetrics
    \/ FinishInit
    \/ CompleteSave
    \/ Propose
    \/ BeginCandidate
    \/ FinishCandidate
    \/ Checkpoint
    \/ Finalize

SpecConfig == Init /\ [][NextConfig]_vars

\* ------------------------------------------------- errors while scoring

\* An exception leaves score_candidate_detailed: load_instances or the reading
\* of a log raises, or an append to a log fails. Neither _init_and_score nor
\* the candidate loop of run_tuning_loop catches it: the process ends.
ScorerError ==
    /\ pc \in {"score", "flush"}
    /\ pc' = "aborted"
    /\ UNCHANGED <<config, state, best, best_score, t, candidates, ci, candidate, sc, cont,
                   state_file, version_files, best_file, preds_log, metrics_log,
                   det, memo, world, ref_final, obs, tin, tout, run, orch, llm, prompt, evaluation, parsing, fleet, scoring>>

NextErr ==
    \/ Start
    \/ InitGuidance
    \/ AgentRun
    \/ FlushMetrics
    \/ FinishInit
    \/ CompleteSave
    \/ Propose
    \/ BeginCandidate
    \/ FinishCandidate
    \/ Checkpoint
    \/ Finalize
    \/ ScorerError

SpecErr == Init /\ [][NextErr]_vars

\* --------------------------------------- runs resumed under another T

\* the caller runs the tuner again on the same output directory with another
\* number of iterations
Reconfigure ==
    /\ pc = "done"
    /\ \E T \in 0..MaxT :
         /\ T # config.iterations
         /\ T * config.candidates_per_iter <= MaxSlots
         /\ config' = [config EXCEPT !.iterations = T]
    /\ pc' = "idle"
    /\ UNCHANGED <<state, best, best_score, t, candidates, ci, candidate, sc, cont,
                   state_file, version_files, best_file, preds_log, metrics_log,
                   det, memo, world, ref_final, obs, tin, tout, run, orch, llm, prompt, evaluation, parsing, fleet, scoring>>

NextResume ==
    \/ Start
    \/ InitGuidance
    \/ AgentRun
    \/ FlushMetrics
    \/ FinishInit
    \/ CompleteSave
    \/ Propose
    \/ BeginCandidate
    \/ FinishCandidate
    \/ Checkpoint
    \/ Finalize
    \/ Reconfigure

\* the proposer, the agent and the harness return: a step of the process
\* that can be taken is taken
SpecResume == Init /\ [][NextResume]_vars /\ WF_vars(NextRun)

\* ------------------------------------------- a run beside its reference

\* The same configuration and the same deterministic collaborators twice: first
\* a run that nothing interrupts, then, on a fresh directory, a run that may
\* be killed and restarted. The LLM's answer to the init prompt is fixed; the
\* proposer, the agent and the harness are any deterministic functions.
\* one iteration of MaxK candidates, each scored on every row of the tasks file
RefConfigs ==
    {c \in ConfigsUpTo(MaxRows) :
        /\ c.iterations = 1
        /\ c.candidates_per_iter = MaxK
        /\ c.tasks_per_score = MaxRows
        /\ c.char_budget = MaxBudget}

InitRef ==
    /\ config \in RefConfigs
    /\ TunerIdle
    /\ memo = [NoMemo EXCEPT !.init = ("g0" :> <<AB, A>>)]
    /\ det = TRUE
    /\ world = "reference"
    /\ tin = NoGuidance
    /\ tout = Nothing

\* the reference run has returned: keep its final tuning_state.json and start
\* over on empty directories, the collaborators answering as before
SwitchWorld ==
    /\ world = "reference"
    /\ pc = "done"
    /\ ref_final' = state_file
    /\ world' = "observed"
    /\ pc' = "idle"
    /\ state_file' = Absent
    /\ version_files' = <<>>
    /\ best_file' = Nothing
    /\ preds_log' = [d \in Dirs |-> <<>>]
    /\ metrics_log' = [d \in Dirs |-> <<>>]
    /\ obs' = NoObs
    /\ UNCHANGED <<config, state, best, best_score, t, candidates, ci, candidate, sc, cont,
                   det, memo, tin, tout, run, orch, llm, prompt, evaluation, parsing, fleet, scoring>>

NextRef ==
    \/ Start
    \/ InitGuidance
    \/ ScoreCompleted
    \/ AgentRun
    \/ FlushMetrics
    \/ FinishInit
    \/ CompleteSave
    \/ Propose
    \/ BeginCandidate
    \/ FinishCandidate
    \/ Checkpoint
    \/ Finalize
    \/ Kill
    \/ SwitchWorld

SpecRef == InitRef /\ [][NextRef]_vars

\* ------------------------------------------------------ the scorer alone

\* the guidance every invocation of the scorer is given
ScoredGuidance == RepoGuidance(Repo, Commit, <<AB>>, 0, MaxBudget)

InitScorer ==
    /\ config \in {c \in ConfigsUpTo(MaxRows + 1) :
                      c.iterations = 0 /\ c.candidates_per_iter = 1
                          /\ c.char_budget = MaxBudget}
    /\ TunerIdle
    /\ memo = NoMemo
    /\ det \in BOOLEAN
    /\ world = "observed"
    /\ tin = NoGuidance
    /\ tout = Nothing

\* score_candidate_detailed(guidance, tasks_file, n_tasks=...) is called
Invoke ==
    /\ pc \in {"idle", "returned"}
    /\ candidate' = ScoredGuidance
    /\ sc' = ScorerEntry(InitDir, ScoredGuidance)
    /\ pc' = "score"
    /\ UNCHANGED <<config, state, best, best_score, t, candidates, ci, cont, state_file,
                   version_files, best_file, preds_log, metrics_log,
                   det, memo, world, ref_final, obs, tin, tout, run, orch, llm, prompt, evaluation, parsing, fleet, scoring>>

\* score_candidate_detailed returns its ScoreResult
ScorerReturn ==
    /\ pc = "score"
    /\ sc.i > sc.n
    /\ pc' = "returned"
    /\ obs' = [obs EXCEPT !.completions = IF @ < 2 THEN @ + 1 ELSE @]
    /\ UNCHANGED <<config, state, best, best_score, t, candidates, ci, candidate, sc, cont,
                   state_file, version_files, best_file, preds_log, metrics_log,
                   det, memo, world, ref_final, tin, tout, run, orch, llm, prompt, evaluation, parsing, fleet, scoring>>

NextScorer ==
    \/ Invoke
    \/ ScoreCompleted
    \/ AgentRun
    \/ FlushMetrics
    \/ ScorerReturn
    \/ Kill

SpecScorer == InitScorer /\ [][NextScorer]_vars

\* ------------------------------------------- truncate_to_budget alone

LineTexts == {<<>>, A, AB}

TruncateInputs ==
    {RepoGuidance(Repo, Commit, lines, version, char_budget) :
        lines \in SeqsUpTo(LineTexts, MaxLines),
        version \in 0..1,
        char_budget \in 0..MaxBudget}

InitTruncate ==
    /\ config \in {c \in Configs : /\ c.iterations = 0
                                   /\ c.candidates_per_iter = 1
                                   /\ c.char_budget = MaxBudget}
    /\ TunerIdle
    /\ memo = NoMemo
    /\ det = FALSE
    /\ world = "observed"
    /\ tin \in TruncateInputs
    /\ tout = Nothing

Truncate ==
    /\ tout = Nothing
    /\ tout' = Some(truncate_to_budget(tin))
    /\ UNCHANGED <<tunerVars, tin, run, orch, llm, prompt, evaluation, parsing, fleet, scoring>>

SpecTruncate == InitTruncate /\ [][Truncate]_vars

\* ---------------------------------------------------------------------------
\* The agent-run driver: generate_patch_with_mini_swebench (parent process),
\* _run_agent_in_docker (child process) and the Docker container of the run.
\* A patch is the source it came from and its length in characters.
\* ---------------------------------------------------------------------------

MAX_PATCH_SIZE == 200000

PatchLens == {0, 1, MAX_PATCH_SIZE, MAX_PATCH_SIZE + 1}

\* multiprocessing.Queue is an OS pipe fed by a thread of the putting process;
\* the pipe holds 64 KiB, and a process that has put more cannot exit before
\* the other side reads
PipeCapacity == 65536

\* the queued item (patch, error); flushed is whether all of it is in the pipe
Queued(patch, error) ==
    Some([patch |-> patch, error |-> error, flushed |-> patch.len <= PipeCapacity])

NoPatch == [src |-> "none", len |-> 0]

Patch(src, len) == IF len = 0 THEN NoPatch ELSE [src |-> src, len |-> len]

\* what the mini-swe-agent call does in the child
AgentKinds == {"returned", "raised", "import_error", "crashed", "hung"}

\* len(patch) <= MAX_PATCH_SIZE, a wrong variant first
within_limit_always(patch) == TRUE

within_limit(patch) == patch.len <= MAX_PATCH_SIZE

\* _extract_diff_from_containers: the git diff of the first running
\* minisweagent-* container, "" when none is running
_extract_diff_from_containers(container, diff) ==
    IF container = "running" THEN Patch("container", diff) ELSE NoPatch

\* extract_patch_from_trajectory on the trajectory file of the run
extract_patch_from_trajectory(traj_file) == Patch("trajectory", traj_file)

\* the child's order of sources
first_non_empty(agent_patch, container_patch, traj_patch) ==
    IF agent_patch.len > 0 THEN agent_patch
    ELSE IF container_patch.len > 0 THEN container_patch
    ELSE traj_patch

\* _stop_orphan_containers: docker stop on every running minisweagent-*
\* container, a wrong variant first
_stop_orphan_containers_none(container) == container

_stop_orphan_containers(container) ==
    IF container = "running" THEN "stopped" ELSE container

\* _salvage_patch: the queued patch when it is non-empty, error-free and
\* within the limit, else the trajectory patch when within the limit, else ""
_salvage_patch(queue, traj_file) ==
    IF /\ queue # Nothing
       /\ queue[1].patch.len > 0
       /\ ~queue[1].error
       /\ within_limit(queue[1].patch)
    THEN queue[1].patch
    ELSE IF /\ extract_patch_from_trajectory(traj_file).len > 0
            /\ within_limit(extract_patch_from_trajectory(traj_file))
         THEN extract_patch_from_trajectory(traj_file)
         ELSE NoPatch

\* the timeout branch of the parent in program order, a wrong variant first
timeout_sequence_stop_first == <<"terminate", "escalate", "stop", "probe", "timeout_return">>

timeout_sequence == <<"terminate", "escalate", "probe", "stop", "timeout_return">>

after(step) ==
    timeout_sequence[(CHOOSE i \in 1..Len(timeout_sequence) : timeout_sequence[i] = step) + 1]

ChildAlive == run.pc # "idle" /\ run.child \in {"setup", "working", "reported"}

\* mutant: the finally clause leaves the trajectory where it is
cleanup_trajectory_kept(r) == r

\* the finally clause of the parent: traj_path.unlink(missing_ok=True) unless
\* the caller gave a traj_dir
cleanup_trajectory(r) ==
    IF r.traj_dir THEN r ELSE [r EXCEPT !.traj_exists = FALSE, !.traj_file = 0]

\* the parent fixes the trajectory path: <traj_dir>/<instance_id>.traj.json,
\* where a file of an earlier run may lie, or a new empty temporary file
\* (lines 446-458); then it creates the queue and starts the child (460-467)
StartRun ==
    /\ run.pc = "idle"
    /\ \E kind \in AgentKinds, p \in PatchLens, d \in PatchLens,
          stale \in PatchLens, tr \in PatchLens \cup {NoField},
          dir \in BOOLEAN, found \in BOOLEAN :
        /\ kind # "returned" => (p = 0 /\ tr = NoField)
        /\ ~dir => (found /\ stale = 0)
        /\ ~found => stale = 0
        /\ run' = [pc |-> "join",
                   path |-> "",
                   kind |-> kind,
                   agent_patch |-> Patch("agent", p),
                   agent_traj |-> tr,
                   diff |-> d,
                   traj_file |-> stale,
                   traj_dir |-> dir,
                   traj_exists |-> found,
                   child |-> "setup",
                   container |-> "none",
                   queue |-> Nothing,
                   container_patch |-> NoPatch,
                   probed |-> FALSE,
                   error |-> FALSE,
                   result |-> NoPatch]
    /\ UNCHANGED <<tunerVars, tin, tout, orch, llm, prompt, evaluation, parsing, fleet, scoring>>

\* proc.start() raises: except Exception returns "" (lines 518-520)
StartFails ==
    /\ run.pc = "idle"
    /\ \E dir \in BOOLEAN, found \in BOOLEAN :
        /\ ~dir => found
        /\ run' = cleanup_trajectory(
                     [pc |-> "returned",
                      path |-> "exception",
                      kind |-> "hung",
                      agent_patch |-> NoPatch,
                      agent_traj |-> NoField,
                      diff |-> 0,
                      traj_file |-> 0,
                      traj_dir |-> dir,
                      traj_exists |-> found,
                      child |-> "none",
                      container |-> "none",
                      queue |-> Nothing,
                      container_patch |-> NoPatch,
                      probed |-> FALSE,
                      error |-> FALSE,
                      result |-> NoPatch])
    /\ UNCHANGED <<tunerVars, tin, tout, orch, llm, prompt, evaluation, parsing, fleet, scoring>>

\* the child imports mini-swe-agent and starts the container (lines 170-213);
\* an ImportError is queued as an error and no container is started
ChildSetup ==
    /\ run.pc # "idle" /\ run.child = "setup"
    /\ run' = IF run.kind = "import_error"
              THEN [run EXCEPT !.child = "reported",
                               !.queue = Queued(NoPatch, TRUE)]
              ELSE [run EXCEPT !.child = "working", !.container = "running"]
    /\ UNCHANGED <<tunerVars, tin, tout, orch, llm, prompt, evaluation, parsing, fleet, scoring>>

\* the agent call comes back: result, trajectory, fallbacks and queue.put
\* (lines 240-330), or the error path with its container fallback (340-347)
ChildPut ==
    /\ run.pc # "idle" /\ run.child = "working"
    /\ run.kind \in {"returned", "raised"}
    /\ LET file == IF run.kind = "returned" /\ run.agent_traj # NoField
                   THEN run.agent_traj ELSE run.traj_file
           probe == _extract_diff_from_containers(run.container, run.diff)
           patch == first_non_empty(run.agent_patch, probe,
                                    extract_patch_from_trajectory(file))
       IN run' = [run EXCEPT
                    !.child = "reported",
                    !.traj_file = file,
                    !.traj_exists = @ \/ (run.kind = "returned" /\ run.agent_traj # NoField),
                    !.queue = IF run.kind = "returned"
                              THEN Queued(patch, FALSE)
                              ELSE Queued(probe, probe.len = 0)]
    /\ UNCHANGED <<tunerVars, tin, tout, orch, llm, prompt, evaluation, parsing, fleet, scoring>>

\* the child process ends by itself: after its queue.put once the item is
\* flushed, or killed from outside without a result; the environment object
\* may remove the container when the interpreter exits normally
ChildExit ==
    /\ run.pc # "idle"
    /\ \/ /\ run.child = "reported"
          /\ run.queue[1].flushed
          /\ \E c \in {run.container, "removed"} :
                /\ (c = "removed") => (run.container = "running")
                /\ run' = [run EXCEPT !.child = "dead", !.container = c]
       \/ /\ run.child = "working" /\ run.kind = "crashed"
          /\ run' = [run EXCEPT !.child = "dead"]
    /\ UNCHANGED <<tunerVars, tin, tout, orch, llm, prompt, evaluation, parsing, fleet, scoring>>

\* proc.join(timeout_s) returns because the child ended (lines 468-470)
JoinReturns ==
    /\ run.pc = "join" /\ run.child = "dead"
    /\ run' = [run EXCEPT !.pc = "get", !.path = "normal"]
    /\ UNCHANGED <<tunerVars, tin, tout, orch, llm, prompt, evaluation, parsing, fleet, scoring>>

\* proc.join(timeout_s) returns with the child alive (lines 468-471)
Timeout ==
    /\ run.pc = "join" /\ ChildAlive
    /\ run' = [run EXCEPT !.pc = timeout_sequence[1], !.path = "timeout"]
    /\ UNCHANGED <<tunerVars, tin, tout, orch, llm, prompt, evaluation, parsing, fleet, scoring>>

\* proc.terminate(); proc.join(timeout=5) (lines 472-473)
Terminate ==
    /\ run.pc = "terminate"
    /\ \E c \in {run.child, "dead"} :
        run' = [run EXCEPT !.pc = after("terminate"), !.child = c]
    /\ UNCHANGED <<tunerVars, tin, tout, orch, llm, prompt, evaluation, parsing, fleet, scoring>>

\* if proc.is_alive(): proc.kill(); proc.join() (lines 474-476)
Escalate ==
    /\ run.pc = "escalate"
    /\ run' = [run EXCEPT !.pc = after("escalate"), !.child = "dead"]
    /\ UNCHANGED <<tunerVars, tin, tout, orch, llm, prompt, evaluation, parsing, fleet, scoring>>

\* container_patch = _extract_diff_from_containers() (line 482)
Probe ==
    /\ run.pc = "probe"
    /\ run' = [run EXCEPT
                 !.pc = after("probe"),
                 !.probed = TRUE,
                 !.container_patch = _extract_diff_from_containers(run.container, run.diff)]
    /\ UNCHANGED <<tunerVars, tin, tout, orch, llm, prompt, evaluation, parsing, fleet, scoring>>

\* _stop_orphan_containers() (line 485)
Stop ==
    /\ run.pc = "stop"
    /\ run' = [run EXCEPT
                 !.pc = after("stop"),
                 !.container = _stop_orphan_containers(run.container)]
    /\ UNCHANGED <<tunerVars, tin, tout, orch, llm, prompt, evaluation, parsing, fleet, scoring>>

\* the container patch when non-empty and within the limit, else the salvage
\* (lines 487-492); get_nowait on an item the dead child left half-written
\* never comes back
TimeoutReturn ==
    /\ run.pc = "timeout_return"
    /\ run' = IF run.container_patch.len > 0 /\ within_limit(run.container_patch)
              THEN cleanup_trajectory(
                       [run EXCEPT !.pc = "returned", !.result = run.container_patch])
              ELSE IF run.queue # Nothing /\ ~run.queue[1].flushed
              THEN [run EXCEPT !.pc = "blocked"]
              ELSE cleanup_trajectory(
                       [run EXCEPT !.pc = "returned",
                                   !.result = _salvage_patch(run.queue, run.traj_file)])
    /\ UNCHANGED <<tunerVars, tin, tout, orch, llm, prompt, evaluation, parsing, fleet, scoring>>

\* result_queue.get(timeout=5) and the rest of the normal path (lines 494-516),
\* then the finally clause (521-527)
GetResult ==
    /\ run.pc = "get"
    /\ IF run.queue = Nothing
       THEN run' = cleanup_trajectory(
                       [run EXCEPT !.pc = "returned",
                                   !.result = _salvage_patch(Nothing, run.traj_file)])
       ELSE IF run.queue[1].error
       THEN run' = cleanup_trajectory(
                       [run EXCEPT !.pc = "returned",
                                   !.queue = Nothing,
                                   !.error = TRUE,
                                   !.result = _salvage_patch(Nothing, run.traj_file)])
       ELSE LET patch == IF run.queue[1].patch.len = 0
                         THEN extract_patch_from_trajectory(run.traj_file)
                         ELSE run.queue[1].patch
            IN run' = cleanup_trajectory(
                        [run EXCEPT !.pc = "returned",
                                    !.queue = Nothing,
                                    !.result = IF patch.len > 0 /\ ~within_limit(patch)
                                               THEN NoPatch ELSE patch])
    /\ UNCHANGED <<tunerVars, tin, tout, orch, llm, prompt, evaluation, parsing, fleet, scoring>>

\* the next call of the driver
NextCall ==
    /\ run.pc = "returned"
    /\ run' = NoRun
    /\ UNCHANGED <<tunerVars, tin, tout, orch, llm, prompt, evaluation, parsing, fleet, scoring>>

NextDriver ==
    \/ StartRun
    \/ StartFails
    \/ ChildSetup
    \/ ChildPut
    \/ ChildExit
    \/ JoinReturns
    \/ Timeout
    \/ Terminate
    \/ Escalate
    \/ Probe
    \/ Stop
    \/ TimeoutReturn
    \/ GetResult
    \/ NextCall

InitDriver ==
    /\ config \in {c \in Configs : /\ c.iterations = 0
                                   /\ c.candidates_per_iter = 1
                                   /\ c.char_budget = MaxBudget}
    /\ TunerIdle
    /\ memo = NoMemo
    /\ det = FALSE
    /\ world = "observed"
    /\ tin = NoGuidance
    /\ tout = Nothing

SpecDriver == InitDriver /\ [][NextDriver]_vars

\* ---------------------------------------------------------------------------
\* The orchestrator: Phase 1 of run_experiment, one repo after the other, then
\* Phase 2. experiment_state.json and the best_guidance.json files stay on
\* disk from one call to the next.
\* ---------------------------------------------------------------------------

MaxRepos == 2

MaxEval == 2

MaxInst == 2

RepoNames == {"r1", "r2"}

\* lists of distinct repos: config.repos, and the repos of the evaluation
\* instances in the order instances_by_repo meets them
DistinctLists ==
    {l \in SeqsUpTo(RepoNames, MaxRepos) :
        \A i, j \in 1..Len(l) : i # j => l[i] # l[j]}

RepoLists == {l \in DistinctLists : Len(l) > 0}

\* what RepoGuidance.render() gives for a tuned best guidance
GuidanceTexts == {"ga", "gb"}

\* conditions = ["no_context", "tuned_context"]
conditions == <<"no_context", "tuned_context">>

\* what the harness run of one condition gives: its exit code rc, and what it
\* leaves for load_results: counts, or files that make load_results raise; a
\* harness that failed (rc # 0) has left no results here, and load_results
\* then returns (0, 0)
HarnessOutcomes ==
    {h \in [rc : {0, 1}, error : BOOLEAN, resolved : 0..MaxEval, total : 0..MaxEval] :
        /\ h.resolved <= h.total
        /\ (h.error \/ h.rc # 0) => h.total = 0}

\* compute_rate(resolved, total)
compute_rate(resolved, total) == IF total > 0 THEN <<resolved, total>> ELSE <<0, 1>>

\* tc["rate"] - nc["rate"] as a fraction, a wrong variant first
rate_difference_reversed(tc, nc) == <<nc[1] * tc[2] - tc[1] * nc[2], tc[2] * nc[2]>>

rate_difference(tc, nc) == <<tc[1] * nc[2] - nc[1] * tc[2], tc[2] * nc[2]>>

\* repo in state.tuning_completed and its best_guidance.json exists
AlreadyTuned(o) ==
    /\ \E k \in 1..Len(o.tuning_completed) : o.tuning_completed[k] = o.repos[o.i]
    /\ o.repos[o.i] \in DOMAIN o.guidance_files

\* a first call creates experiment_state.json; a later call, after a return,
\* an exception or a kill, loads it and finds the guidance files and the
\* prediction logs of the earlier calls. The evaluation dataset is the same
\* in every call: eval_repos are the repos of its instances in the order
\* instances_by_repo meets them, with n_inst instances each
StartExperiment ==
    /\ orch.pc \in {"idle", "returned", "raised", "killed"}
    /\ \E repos \in RepoLists, dry_run \in BOOLEAN,
          eval_repos \in DistinctLists, n_inst \in 1..MaxInst :
        /\ orch.pc # "idle" => (eval_repos = orch.eval_repos /\ n_inst = orch.n_inst)
        /\ orch' =
                [pc |-> "tune",
                 repos |-> repos,
                 dry_run |-> dry_run,
                 i |-> 1,
                 tuning_completed |-> IF orch.pc = "idle" THEN <<>> ELSE orch.tuning_completed,
                 guidance_files |-> IF orch.pc = "idle" THEN <<>> ELSE orch.guidance_files,
                 eval_completed |-> IF orch.pc = "idle" THEN {} ELSE orch.eval_completed,
                 preds |-> IF orch.pc = "idle" THEN EmptyBag ELSE orch.preds,
                 guidance_map |-> <<>>,
                 failed |-> {},
                 eval_repos |-> eval_repos,
                 n_inst |-> n_inst,
                 c |-> 1,
                 j |-> 1,
                 k |-> 1,
                 completed_ids |-> {},
                 runs |-> {},
                 harness |-> <<>>,
                 eval_results |-> <<>>,
                 summary |-> Nothing]
    /\ UNCHANGED <<tunerVars, tin, tout, run, llm, prompt, evaluation, parsing, fleet, scoring>>

\* the repo was tuned by an earlier call: its guidance is loaded
SkipRepo ==
    /\ orch.pc = "tune" /\ orch.i <= Len(orch.repos)
    /\ AlreadyTuned(orch)
    /\ LET repo == orch.repos[orch.i] IN
       orch' = [orch EXCEPT !.guidance_map = (repo :> orch.guidance_files[repo]) @@ @,
                            !.i = @ + 1]
    /\ UNCHANGED <<tunerVars, tin, tout, run, llm, prompt, evaluation, parsing, fleet, scoring>>

\* the render of the guidance a dry run puts in place of a tuned one
dry_run_guidance == "- (dry run)"

\* run_tuning_loop returns the best guidance it has saved as
\* best_guidance.json; a dry run writes its own guidance to that file and
\* runs no tuning loop
TuneRepo ==
    /\ orch.pc = "tune" /\ orch.i <= Len(orch.repos)
    /\ ~AlreadyTuned(orch)
    /\ \E g \in IF orch.dry_run THEN {dry_run_guidance} ELSE GuidanceTexts :
       LET repo == orch.repos[orch.i] IN
       orch' = [orch EXCEPT !.guidance_map = (repo :> g) @@ @,
                            !.guidance_files = (repo :> g) @@ @,
                            !.pc = "tuned"]
    /\ UNCHANGED <<tunerVars, tin, tout, run, llm, prompt, evaluation, parsing, fleet, scoring>>

\* mutant: the list is started again with the repo
mark_tuned_alone(tuning_completed, repo) == <<repo>>

\* state.tuning_completed.append(repo)
mark_tuned(tuning_completed, repo) == Append(tuning_completed, repo)

\* the repo is appended to tuning_completed and the state is saved
MarkTuned ==
    /\ orch.pc = "tuned"
    /\ orch' = [orch EXCEPT !.tuning_completed = mark_tuned(@, orch.repos[orch.i]),
                            !.i = @ + 1,
                            !.pc = "tune"]
    /\ UNCHANGED <<tunerVars, tin, tout, run, llm, prompt, evaluation, parsing, fleet, scoring>>

\* run_tuning_loop raises: nothing around the call catches it
TuneRaises ==
    /\ orch.pc = "tune" /\ orch.i <= Len(orch.repos)
    /\ ~AlreadyTuned(orch)
    /\ ~orch.dry_run
    /\ orch' = [orch EXCEPT !.failed = @ \cup {orch.repos[orch.i]},
                            !.pc = "raised"]
    /\ UNCHANGED <<tunerVars, tin, tout, run, llm, prompt, evaluation, parsing, fleet, scoring>>

\* mutant: the prediction log is not consulted
completed_ids_none(preds, condition) == {}

\* completed_ids: the instance ids with a record in the condition's preds.jsonl,
\* read when the condition begins
completed_ids(preds, condition) ==
    {<<r.repo, r.instance>> : r \in {q \in BagToSet(preds) : q.condition = condition}}

\* the loop over config.repos is over: Phase 2 loads the evaluation instances
\* and groups them by repo, and the first condition begins
Phase2 ==
    /\ orch.pc = "tune" /\ orch.i > Len(orch.repos)
    /\ orch' = [orch EXCEPT !.pc = "eval",
                            !.completed_ids = completed_ids(orch.preds, conditions[1])]
    /\ UNCHANGED <<tunerVars, tin, tout, run, llm, prompt, evaluation, parsing, fleet, scoring>>

\* guidance_text of a repo under the condition at hand
guidance_text(o, repo) ==
    IF conditions[o.c] = "tuned_context" /\ repo \in DOMAIN o.guidance_map
    THEN Some(o.guidance_map[repo])
    ELSE Nothing

\* key = f"{repo}__{condition}" of the repo and condition at hand
eval_key(o) == <<o.eval_repos[o.j], conditions[o.c]>>

\* a repo of instances_by_repo whose key is in eval_completed is skipped
SkipEval ==
    /\ orch.pc = "eval" /\ orch.j <= Len(orch.eval_repos)
    /\ eval_key(orch) \in orch.eval_completed
    /\ orch' = [orch EXCEPT !.j = @ + 1]
    /\ UNCHANGED <<tunerVars, tin, tout, run, llm, prompt, evaluation, parsing, fleet, scoring>>

\* an instance whose id is in completed_ids is passed over
SkipInstance ==
    /\ orch.pc = "eval" /\ orch.j <= Len(orch.eval_repos)
    /\ eval_key(orch) \notin orch.eval_completed
    /\ orch.k <= orch.n_inst
    /\ <<orch.eval_repos[orch.j], orch.k>> \in orch.completed_ids
    /\ orch' = [orch EXCEPT !.k = @ + 1]
    /\ UNCHANGED <<tunerVars, tin, tout, run, llm, prompt, evaluation, parsing, fleet, scoring>>

\* the agent run of an instance (or the dry run, or the except branch): the
\* patch is in memory
RunInstance ==
    /\ orch.pc = "eval" /\ orch.j <= Len(orch.eval_repos)
    /\ eval_key(orch) \notin orch.eval_completed
    /\ orch.k <= orch.n_inst
    /\ <<orch.eval_repos[orch.j], orch.k>> \notin orch.completed_ids
    /\ orch' = [orch EXCEPT
                  !.runs = @ \cup {[condition |-> conditions[orch.c],
                                    repo |-> orch.eval_repos[orch.j],
                                    instance |-> orch.k,
                                    context_md |-> guidance_text(orch, orch.eval_repos[orch.j])]},
                  !.pc = "ran"]
    /\ UNCHANGED <<tunerVars, tin, tout, run, llm, prompt, evaluation, parsing, fleet, scoring>>

\* the record is appended to the condition's preds.jsonl (with the metrics
\* record after it); the logs are bags of records
AppendPrediction ==
    /\ orch.pc = "ran"
    /\ orch' = [orch EXCEPT
                  !.preds = @ (+) SetToBag({[condition |-> conditions[orch.c],
                                             repo |-> orch.eval_repos[orch.j],
                                             instance |-> orch.k]}),
                  !.k = @ + 1,
                  !.pc = "eval"]
    /\ UNCHANGED <<tunerVars, tin, tout, run, llm, prompt, evaluation, parsing, fleet, scoring>>

\* the instances of the repo are through: state.eval_completed.append(key)
\* and state.save
MarkEval ==
    /\ orch.pc = "eval" /\ orch.j <= Len(orch.eval_repos)
    /\ eval_key(orch) \notin orch.eval_completed
    /\ orch.k > orch.n_inst
    /\ orch' = [orch EXCEPT !.eval_completed = @ \cup {eval_key(orch)},
                            !.j = @ + 1,
                            !.k = 1]
    /\ UNCHANGED <<tunerVars, tin, tout, run, llm, prompt, evaluation, parsing, fleet, scoring>>

\* the harness run of the condition and load_results: a rate, or an error
\* entry when load_results raises; then the next condition begins
EvalHarness ==
    /\ orch.pc = "eval" /\ orch.j > Len(orch.eval_repos)
    /\ \E h \in HarnessOutcomes :
        orch' = [orch EXCEPT
                   !.harness = Append(@, h),
                   !.eval_results = Append(@, IF h.error
                                              THEN [error |-> TRUE, rate |-> <<0, 1>>]
                                              ELSE [error |-> FALSE,
                                                    rate |-> compute_rate(h.resolved, h.total)]),
                   !.c = @ + 1,
                   !.j = 1,
                   !.k = 1,
                   !.completed_ids = IF orch.c = Len(conditions) THEN {}
                                     ELSE completed_ids(orch.preds, conditions[orch.c + 1]),
                   !.pc = IF orch.c = Len(conditions) THEN "summary" ELSE "eval"]
    /\ UNCHANGED <<tunerVars, tin, tout, run, llm, prompt, evaluation, parsing, fleet, scoring>>

\* the summary with its delta, written to experiment_summary.json;
\* run_experiment returns, and of its memory only what the summary holds is
\* kept
ExperimentReturns ==
    /\ orch.pc = "summary"
    /\ LET nc == orch.eval_results[1]
           tc == orch.eval_results[2]
       IN orch' = [orch EXCEPT
                     !.pc = "returned",
                     !.i = 1,
                     !.guidance_map = <<>>,
                     !.c = 1,
                     !.runs = {},
                     !.summary = Some([delta |-> IF ~nc.error /\ ~tc.error
                                                 THEN Some(rate_difference(tc.rate, nc.rate))
                                                 ELSE Nothing])]
    /\ UNCHANGED <<tunerVars, tin, tout, run, llm, prompt, evaluation, parsing, fleet, scoring>>

\* the process of run_experiment is killed; its memory is lost, the files
\* stay as they are
KillExperiment ==
    /\ orch.pc \in {"tune", "tuned", "eval", "ran", "summary"}
    /\ orch' = [pc |-> "killed",
                repos |-> orch.repos,
                dry_run |-> orch.dry_run,
                i |-> 1,
                tuning_completed |-> orch.tuning_completed,
                guidance_files |-> orch.guidance_files,
                eval_completed |-> orch.eval_completed,
                preds |-> orch.preds,
                guidance_map |-> <<>>,
                failed |-> {},
                eval_repos |-> orch.eval_repos,
                n_inst |-> orch.n_inst,
                c |-> 1,
                j |-> 1,
                k |-> 1,
                completed_ids |-> {},
                runs |-> {},
                harness |-> <<>>,
                eval_results |-> <<>>,
                summary |-> Nothing]
    /\ UNCHANGED <<tunerVars, tin, tout, run, llm, prompt, evaluation, parsing, fleet, scoring>>

NextOrch ==
    \/ StartExperiment
    \/ SkipRepo
    \/ TuneRepo
    \/ MarkTuned
    \/ TuneRaises
    \/ Phase2
    \/ SkipEval
    \/ SkipInstance
    \/ RunInstance
    \/ AppendPrediction
    \/ MarkEval
    \/ EvalHarness
    \/ ExperimentReturns
    \/ KillExperiment

SpecOrch == InitDriver /\ [][NextOrch]_vars

\* ---------------------------------------------------------------------------
\* The LLM client: one call of chat_completion. A response is its kind and the
\* length of its body.
\* ---------------------------------------------------------------------------

max_retries == 4

\* a usable answer; an answer without choices[0].message.content; HTTP 429,
\* another 4xx, a 5xx; a request that fails without any response
ResponseKinds == {"ok", "no_content", "429", "400", "500", "no_response"}

BodyLens == {0, 1200, 1201}

Responses == [kind : ResponseKinds, body : BodyLens]

\* what requests.post, raise_for_status and response.json() raise as a
\* RequestException
IsRequestException(r) == r.kind \in {"429", "400", "500", "no_response"}

\* the exception carries a response with a 4xx status
Is4xx(r) == r.kind \in {"429", "400"}

\* e.response.text[:1200]
truncated_body(r) == IF r.body > 1200 THEN 1200 ELSE r.body

\* last_error after a failed attempt
error_of(r) ==
    IF Is4xx(r) THEN [type |-> "RuntimeError", status |-> r.kind, body |-> truncated_body(r)]
    ELSE [type |-> "RequestException", status |-> r.kind, body |-> 0]

\* the wait after failed attempt number attempt (from 0), a wrong variant first
backoff_plain(attempt, r) == 2 ^ attempt

backoff(attempt, r) ==
    IF r.kind = "429" /\ 2 ^ attempt < 10 THEN 10 ELSE 2 ^ attempt

NoError == [type |-> "none", status |-> "", body |-> 0]

CallChat ==
    /\ llm.pc \in {"idle", "returned", "raised"}
    /\ llm' = [pc |-> "post",
               attempt |-> 0,
               responses |-> <<>>,
               sleeps |-> <<>>,
               last_error |-> NoError,
               raised |-> NoError]
    /\ UNCHANGED <<tunerVars, tin, tout, run, orch, prompt, evaluation, parsing, fleet, scoring>>

\* one pass of the for loop: the request, then return, propagate, or record
\* the error and either sleep or leave the loop
Post ==
    /\ llm.pc = "post" /\ llm.attempt < max_retries
    /\ \E r \in Responses :
        LET seen == Append(llm.responses, r) IN
        IF r.kind = "ok"
        THEN llm' = [llm EXCEPT !.pc = "returned", !.responses = seen]
        ELSE IF ~IsRequestException(r)
        THEN llm' = [llm EXCEPT !.pc = "raised", !.responses = seen,
                                !.raised = [type |-> "KeyError", status |-> r.kind, body |-> 0]]
        ELSE IF llm.attempt < max_retries - 1
        THEN llm' = [llm EXCEPT !.pc = "sleep", !.responses = seen,
                                !.last_error = error_of(r),
                                !.sleeps = Append(@, backoff(llm.attempt, r))]
        ELSE llm' = [llm EXCEPT !.pc = "post", !.responses = seen,
                                !.last_error = error_of(r),
                                !.attempt = @ + 1]
    /\ UNCHANGED <<tunerVars, tin, tout, run, orch, prompt, evaluation, parsing, fleet, scoring>>

\* time.sleep(wait) returns
Sleep ==
    /\ llm.pc = "sleep"
    /\ llm' = [llm EXCEPT !.pc = "post", !.attempt = @ + 1]
    /\ UNCHANGED <<tunerVars, tin, tout, run, orch, prompt, evaluation, parsing, fleet, scoring>>

\* the loop is exhausted: RuntimeError with last_error in its message
RaiseFailed ==
    /\ llm.pc = "post" /\ llm.attempt = max_retries
    /\ llm' = [llm EXCEPT !.pc = "raised",
                          !.raised = [llm.last_error EXCEPT !.type = "RuntimeError"]]
    /\ UNCHANGED <<tunerVars, tin, tout, run, orch, prompt, evaluation, parsing, fleet, scoring>>

NextLLM ==
    \/ CallChat
    \/ Post
    \/ Sleep
    \/ RaiseFailed

SpecLLM == InitDriver /\ [][NextLLM]_vars /\ WF_vars(Post \/ Sleep \/ RaiseFailed)

\* ---------------------------------------------------------------------------
\* The agent prompt: build_task_with_context
\* ---------------------------------------------------------------------------

CONTEXT_BLOCK_START ==
    <<"#", " ", "R", "E", "P", "O", " ", "G", "U", "I", "D", "A", "N", "C", "E", " ", "(", "A", "U", "T", "O", "-", "T", "U", "N", "E", "D", ")">>

CONTEXT_BLOCK_END ==
    <<"#", " ", "E", "N", "D", " ", "R", "E", "P", "O", " ", "G", "U", "I", "D", "A", "N", "C", "E">>

MaxText == 2

\* texts of the model's alphabet
Texts == SeqsUpTo({"a", SP, NL}, MaxText)

\* the f-string of lines 73-77, a wrong variant without the blank line first
build_task_with_context_tight(problem_statement, context_md) ==
    IF context_md = Nothing \/ context_md = Some(<<>>)
    THEN problem_statement
    ELSE CONTEXT_BLOCK_START \o <<NL>> \o context_md[1] \o <<NL>>
            \o CONTEXT_BLOCK_END \o <<NL>> \o problem_statement

build_task_with_context(problem_statement, context_md) ==
    IF context_md = Nothing \/ context_md = Some(<<>>)
    THEN problem_statement
    ELSE CONTEXT_BLOCK_START \o <<NL>> \o context_md[1] \o <<NL>>
            \o CONTEXT_BLOCK_END \o <<NL>> \o <<NL>> \o problem_statement

\* one call with a problem statement and an optional guidance text
BuildTask ==
    /\ \E problem_statement \in Texts, context_md \in {Nothing} \cup {Some(x) : x \in Texts} :
        prompt' = [pc |-> "returned",
                   problem_statement |-> problem_statement,
                   context_md |-> context_md,
                   task |-> build_task_with_context(problem_statement, context_md)]
    /\ UNCHANGED <<tunerVars, tin, tout, run, orch, llm, evaluation, parsing, fleet, scoring>>

SpecPrompt == InitDriver /\ [][BuildTask]_vars

\* ---------------------------------------------------------------------------
\* The default evaluator of the scorer: _default_eval and the harness call of
\* _run_swebench_eval_single
\* ---------------------------------------------------------------------------

\* not patch or not patch.strip()
is_blank(patch) == \A n \in 1..Len(patch) : patch[n] \in {SP, NL}

\* what subprocess.run of the harness comes to: a completed process with its
\* return code and whether its stdout holds the word "resolved" or the
\* instance id, a TimeoutExpired, a FileNotFoundError, or another exception.
\* resolved is the harness's own verdict on the instance.
HarnessRuns ==
    {h \in [kind : {"completed", "timeout", "not_found", "raised"},
            returncode : {0, 1},
            says_resolved : BOOLEAN,
            says_iid : BOOLEAN,
            resolved : BOOLEAN] :
        h.kind # "completed" =>
            (h.returncode = 1 /\ ~h.says_resolved /\ ~h.says_iid /\ ~h.resolved)}

\* _run_swebench_eval_single: raises what subprocess.run raises; else True when
\* stdout holds "resolved" or the instance id, else returncode == 0
_run_swebench_eval_single(h) ==
    IF h.kind # "completed"
    THEN [raised |-> TRUE, value |-> FALSE]
    ELSE [raised |-> FALSE,
          value |-> IF h.says_resolved \/ h.says_iid THEN TRUE ELSE h.returncode = 0]

\* _default_eval: False for a blank patch without a harness call; else the
\* value of the harness call, False when it raises
_default_eval(patch, h) ==
    IF is_blank(patch)
    THEN [called |-> FALSE, passed |-> FALSE]
    ELSE [called |-> TRUE,
          passed |-> IF _run_swebench_eval_single(h).raised
                     THEN FALSE
                     ELSE _run_swebench_eval_single(h).value]

\* one call of the default evaluator
Evaluate ==
    /\ \E patch \in Texts, h \in HarnessRuns :
        evaluation' = [pc |-> "returned",
                       patch |-> patch,
                       harness |-> h,
                       called |-> _default_eval(patch, h).called,
                       passed |-> _default_eval(patch, h).passed]
    /\ UNCHANGED <<tunerVars, tin, tout, run, orch, llm, prompt, parsing, fleet, scoring>>

SpecEval == InitDriver /\ [][Evaluate]_vars

\* ---------------------------------------------------------------------------
\* The proposer's parser on its own: _parse_candidates over every shape of
\* entry, also an object whose "lines" is a number or null
\* ---------------------------------------------------------------------------

\* {"lines": 5}, {"lines": null}: the comprehension over item["lines"] raises
\* TypeError
ScalarItem == [kind |-> "dict_scalar", lines |-> <<>>]

ParseItems == Items \cup {ScalarItem}

ParseOutputs ==
    {[json |-> FALSE, arr |-> <<>>]}
        \cup {[json |-> TRUE, arr |-> a] : a \in SeqsUpTo(ParseItems, MaxK + 1)}

\* arr[:k]
first_k(arr, k) == SubSeq(arr, 1, IF Len(arr) < k THEN Len(arr) ELSE k)

\* one call of _parse_candidates: the exception that leaves it, or its result
parse_outcome(raw, base, k) ==
    IF raw.json /\ \E n \in 1..Len(first_k(raw.arr, k)) : raw.arr[n].kind = "dict_scalar"
    THEN [raised |-> TRUE, candidates |-> <<>>]
    ELSE [raised |-> FALSE, candidates |-> _parse_candidates(raw, base, k)]

ParseCandidates ==
    /\ \E raw \in ParseOutputs, k \in 1..MaxK, char_budget \in 1..MaxBudget :
        LET base == RepoGuidance(Repo, Commit, <<A>>, 1, char_budget)
        IN parsing' = [pc |-> "returned",
                       raw |-> raw,
                       k |-> k,
                       base |-> base,
                       raised |-> parse_outcome(raw, base, k).raised,
                       candidates |-> parse_outcome(raw, base, k).candidates]
    /\ UNCHANGED <<tunerVars, tin, tout, run, orch, llm, prompt, evaluation, fleet, scoring>>

SpecParse == InitDriver /\ [][ParseCandidates]_vars

\* ---------------------------------------------------------------------------
\* Two calls of generate_patch_with_mini_swebench at the same time on one
\* Docker daemon (two tuners or experiments on one machine)
\* ---------------------------------------------------------------------------

Callers == {1, 2}

NoProbe == [owner |-> 0, diff |-> FALSE]

\* ps: the running minisweagent-* containers in the order of docker ps (newest
\* first), each with the call that started it and whether its work tree has a
\* diff; calls: each call's position, what its probe returned and the
\* containers it has stopped, by owner
IdleHost ==
    [pc |-> "shared",
     ps |-> <<>>,
     calls |-> [r \in Callers |-> [pc |-> "none", probe |-> NoProbe, stopped |-> {}]]]

Host == IF fleet.pc = "idle" THEN IdleHost ELSE fleet

\* docker ps -q --filter name=minisweagent-, containers[0], git diff in it
probe_host(ps) ==
    IF ps = <<>> THEN NoProbe ELSE [owner |-> ps[1].owner, diff |-> ps[1].diff]

\* docker stop on every container that docker ps lists
stopped_on_host(ps) == {ps[n].owner : n \in 1..Len(ps)}

\* the child of call r starts its container
LaunchContainer(r) ==
    /\ Host.calls[r].pc \in {"none", "returned"}
    /\ fleet' = [Host EXCEPT !.ps = <<[owner |-> r, diff |-> FALSE]>> \o @,
                             !.calls[r] = [pc |-> "working", probe |-> NoProbe,
                                           stopped |-> {}]]
    /\ UNCHANGED <<tunerVars, tin, tout, run, orch, llm, prompt, evaluation, parsing, scoring>>

\* the agent of call r edits files in its container
AgentEdits(r) ==
    /\ Host.calls[r].pc = "working"
    /\ \E n \in 1..Len(Host.ps) :
         /\ Host.ps[n].owner = r
         /\ ~Host.ps[n].diff
         /\ fleet' = [Host EXCEPT !.ps[n].diff = TRUE]
    /\ UNCHANGED <<tunerVars, tin, tout, run, orch, llm, prompt, evaluation, parsing, scoring>>

\* call r times out: container_patch = _extract_diff_from_containers()
ProbeOnTimeout(r) ==
    /\ Host.calls[r].pc = "working"
    /\ fleet' = [Host EXCEPT !.calls[r].pc = "probed",
                             !.calls[r].probe = probe_host(Host.ps)]
    /\ UNCHANGED <<tunerVars, tin, tout, run, orch, llm, prompt, evaluation, parsing, scoring>>

\* then _stop_orphan_containers(), and the call returns
StopOnTimeout(r) ==
    /\ Host.calls[r].pc = "probed"
    /\ fleet' = [Host EXCEPT !.calls[r].pc = "returned",
                             !.calls[r].stopped = stopped_on_host(Host.ps),
                             !.ps = <<>>]
    /\ UNCHANGED <<tunerVars, tin, tout, run, orch, llm, prompt, evaluation, parsing, scoring>>

\* the child of call r ends in time, its environment removes its container
\* if it still runs, and the call returns
ChildEnds(r) ==
    /\ Host.calls[r].pc = "working"
    /\ fleet' = [Host EXCEPT !.calls[r].pc = "returned",
                             !.ps = SelectSeq(@, LAMBDA c : c.owner # r)]
    /\ UNCHANGED <<tunerVars, tin, tout, run, orch, llm, prompt, evaluation, parsing, scoring>>

NextFleet ==
    \/ \E r \in Callers : LaunchContainer(r)
    \/ \E r \in Callers : AgentEdits(r)
    \/ \E r \in Callers : ProbeOnTimeout(r)
    \/ \E r \in Callers : StopOnTimeout(r)
    \/ \E r \in Callers : ChildEnds(r)

SpecFleet == InitDriver /\ [][NextFleet]_vars

\* ---------------------------------------------------------------------------
\* The value score_candidate_detailed returns to the tuner, on a tasks file
\* of any length, and what the tuner does with it
\* ---------------------------------------------------------------------------

\* what the agent and the evaluator give for one task: a blank patch never
\* passes
TaskOutcomes ==
    {o \in [non_empty : BOOLEAN, passed : BOOLEAN] : o.passed => o.non_empty}

\* load_instances(tasks_file=..., limit=n_tasks) on a file of this many rows
loaded_rows(rows, limit) == IF limit < rows THEN limit ELSE rows

\* "return 0.0": a float, not a ScoreResult
BareFloat ==
    [type |-> "float", rate |-> <<0, 1>>, resolved |-> NoField, total |-> NoField,
     non_empty_patches |-> NoField]

\* ScoreResult(rate=..., resolved=..., total=..., non_empty_patches=...)
ScoreResult(resolved, total, non_empty_patches) ==
    [type |-> "ScoreResult", rate |-> Rate(resolved, total), resolved |-> resolved,
     total |-> total, non_empty_patches |-> non_empty_patches]

\* score_candidate_detailed from load_instances to its return
score_candidate_detailed(outcomes) ==
    IF Len(outcomes) = 0
    THEN BareFloat
    ELSE ScoreResult(Cardinality({n \in 1..Len(outcomes) : outcomes[n].passed}),
                     Len(outcomes),
                     Cardinality({n \in 1..Len(outcomes) : outcomes[n].non_empty}))

\* the tuner calls the scorer, for the init guidance or for a candidate
CallScorer ==
    /\ scoring.pc \in {"idle", "recorded", "raised"}
    /\ \E rows \in 0..MaxRows, n_tasks \in 1..(MaxRows + 1), caller \in {"init", "candidate"} :
        \E outcomes \in [1..loaded_rows(rows, n_tasks) -> TaskOutcomes] :
            scoring' = [pc |-> "scored",
                        caller |-> caller,
                        rows |-> rows,
                        n_tasks |-> n_tasks,
                        outcomes |-> outcomes,
                        result |-> score_candidate_detailed(outcomes),
                        event |-> Nothing]
    /\ UNCHANGED <<tunerVars, tin, tout, run, orch, llm, prompt, evaluation, parsing, fleet>>

\* g0_score = g0_result.rate, c_score = c_result.rate and the event built from
\* the result's fields: AttributeError when the result is a float
UseResult ==
    /\ scoring.pc = "scored"
    /\ scoring' =
          IF scoring.result.type = "float"
          THEN [scoring EXCEPT !.pc = "raised"]
          ELSE [scoring EXCEPT
                   !.pc = "recorded",
                   !.event = Some([type |-> scoring.caller,
                                   score |-> scoring.result.rate,
                                   resolved |-> scoring.result.resolved,
                                   total |-> scoring.result.total])]
    /\ UNCHANGED <<tunerVars, tin, tout, run, orch, llm, prompt, evaluation, parsing, fleet>>

NextScoring ==
    \/ CallScorer
    \/ UseResult

SpecScoring == InitDriver /\ [][NextScoring]_vars

\* ================================================================== claims

\* every TuningState there is: the one in memory and the one in tuning_state.json
TuningStates ==
    (IF pc \in Running THEN {state} ELSE {})
        \cup (IF state_file.status = "ok" THEN {state_file.data[1]} ELSE {})

MaxScoreAt(history, j) == \A k \in 1..Len(history) : ~RateGT(history[k].score, history[j].score)

BestIsMax(st) ==
    st.history # <<>> =>
        \E j \in 1..Len(st.history) :
            /\ MaxScoreAt(st.history, j)
            /\ RateEQ(st.history[j].score, st.best_score)

\* a step of the running process that changes best_version adopts the event it
\* appends, whose score is strictly greater than the best_score held before
AdoptionIsStrict ==
    (/\ pc \in Running
     /\ pc' \in Running
     /\ state.history # <<>>
     /\ state'.best_version # state.best_version)
        => /\ Len(state'.history) = Len(state.history) + 1
           /\ state'.history[Len(state'.history)].version = state'.best_version
           /\ RateGT(state'.history[Len(state'.history)].score, state.best_score)
           /\ RateEQ(state'.best_score, state'.history[Len(state'.history)].score)

\* C1: in every TuningState with events, in memory or persisted, fresh or
\* resumed, best_score is the maximum score of the history, and a change of
\* best_version adopts a candidate that scored strictly above the old best_score
C1_MonotoneBest ==
    /\ [](\A st \in TuningStates : BestIsMax(st))
    /\ [][AdoptionIsStrict]_vars

\* a checkpoint that holds an adopted candidate and three events
C1_Witness ==
    /\ state_file.status = "ok"
    /\ state_file.data[1].best_version > 0
    /\ Len(state_file.data[1].history) >= 3
    /\ RateGT(state_file.data[1].best_score, state_file.data[1].history[1].score)

VersionsIncreasing(history) ==
    \A j, k \in 1..Len(history) : j < k => history[j].version < history[k].version

\* C2: in every TuningState history the versions strictly increase in history
\* order, so no two events share a version
C2_VersionMonotonicity == \A st \in TuningStates : VersionsIncreasing(st.history)

\* index of the earliest event that attains the maximum score
EarliestMax(history) ==
    CHOOSE j \in 1..Len(history) :
        /\ MaxScoreAt(history, j)
        /\ \A k \in 1..(j - 1) : ~MaxScoreAt(history, k)

\* C3: ties never replace the incumbent: in every TuningState with events
\* best_version is the version of the earliest event that attains the maximum
C3_StrictImprovement ==
    \A st \in TuningStates :
        st.history # <<>> => st.best_version = st.history[EarliestMax(st.history)].version

\* a checkpoint after an iteration in which a candidate tied with the incumbent
C3_Witness ==
    /\ state_file.status = "ok"
    /\ state_file.data[1].completed_iterations >= 1
    /\ \E j, k \in 1..Len(state_file.data[1].history) :
         /\ j < k
         /\ MaxScoreAt(state_file.data[1].history, j)
         /\ MaxScoreAt(state_file.data[1].history, k)
         /\ RateGT(state_file.data[1].history[j].score, <<0, 1>>)

\* C4: once a run has returned, a later run on the same output directory leaves
\* tuning_state.json (so its history) and best_guidance.json as they are and
\* calls neither the proposer nor the scorer: it only resumes past the last
\* iteration and returns
C4_ResumeIdempotence ==
    [][obs.completions >= 1 =>
          /\ state_file' = state_file
          /\ best_file' = best_file
          /\ preds_log' = preds_log
          /\ pc' \in {"loop", "done", "idle"}
          /\ pc' = "loop" => t' > config.iterations]_vars

\* a second run has returned, on a directory where candidates had been scored
C4_Witness ==
    /\ pc = "done"
    /\ obs.completions = 2
    /\ state_file.status = "ok"
    /\ Len(state_file.data[1].history) >= 2

SavedGuidances ==
    {version_files[n] : n \in DOMAIN version_files}
        \cup (IF best_file = Nothing THEN {} ELSE {best_file[1]})

\* C7: every guidance file the tuner has saved, versions/v<N>.json and
\* best_guidance.json, renders to at most char_budget characters
C7_BudgetInvariant ==
    \A g \in SavedGuidances :
        /\ g.char_budget = config.char_budget
        /\ Len(render(g)) <= config.char_budget

\* the init guidance and a candidate were cut down to the budget and saved,
\* and the best guidance was written
C7_Witness ==
    /\ best_file # Nothing
    /\ 0 \in DOMAIN version_files
    /\ 1 \in DOMAIN version_files
    /\ config.char_budget < Len(Join(<<AB, A>>))
    /\ Len(version_files[0].lines) < 2
    /\ Len(version_files[1].lines) < 2

\* C9: a versions/v<N>.json, once written, is never written again with
\* different lines
C9_VersionsNeverEdited ==
    [][\A n \in (DOMAIN version_files) \cap (DOMAIN version_files') :
          version_files'[n].lines = version_files[n].lines]_vars

\* C10: whenever the process is not running (it returned, failed or was
\* killed), tuning_state.json is missing or holds a complete snapshot
C10_AtomicPersistence ==
    pc \in {"idle", "done", "failed"} => state_file.status \in {"absent", "ok"}

UniqueIds(log) ==
    \A j, k \in 1..Len(log) : log[j].instance_id = log[k].instance_id => j = k

LogIds(log) == {log[j].instance_id : j \in 1..Len(log)}

\* a step that changes preds.jsonl appends one record, of a task that had none
AppendsOnlyNewTasks ==
    \A d \in Dirs :
        (preds_log'[d] # preds_log[d] /\ world' = world) =>
            /\ Len(preds_log'[d]) = Len(preds_log[d]) + 1
            /\ SubSeq(preds_log'[d], 1, Len(preds_log[d])) = preds_log[d]
            /\ preds_log'[d][Len(preds_log'[d])].instance_id \notin LogIds(preds_log[d])

\* the fields of a TuningState that are scores and versions: what is left of a
\* history when each event's token usage is put aside
Scores(file) ==
    IF file.status # "ok" THEN Nothing
    ELSE LET st == file.data[1]
         IN Some([st EXCEPT !.history =
                     [j \in 1..Len(st.history) |->
                         [st.history[j] EXCEPT !.token_usage = NoField]]])

\* C5: with a deterministic proposer, agent and harness, a run that was killed
\* and restarted with the same config, wherever it was killed, ends with the
\* tuning_state.json (best_version, best_score, history, completed_iterations)
\* of the uninterrupted run
C5_PartialIterationRecovery ==
    (world = "observed" /\ pc = "done") => state_file = ref_final

\* what the recovery does keep: versions, scores and counts of the final state
\* are those of the uninterrupted run, and no agent run is repeated
C5_RecoveryOfScores ==
    /\ []((world = "observed" /\ pc = "done") => Scores(state_file) = Scores(ref_final))
    /\ [][AppendsOnlyNewTasks]_vars

\* C6: a predictions log never holds two records of one instance_id, the agent
\* is run only for tasks that have no record, and an invocation that finds a
\* record for every task appends nothing to either log
C6_AtMostOnceScoring ==
    /\ [](\A d \in Dirs : UniqueIds(preds_log[d]) /\ UniqueIds(metrics_log[d]))
    /\ [][AppendsOnlyNewTasks]_vars
    /\ [][(pc = "score" /\ (1..sc.n) \subseteq DOMAIN sc.completed) =>
             (preds_log' = preds_log /\ metrics_log' = metrics_log)]_vars

\* the scorer has returned twice, the first invocations having been interrupted
\* (a record of the predictions log has no metrics record)
C6_Witness ==
    /\ pc = "returned"
    /\ obs.completions = 2
    /\ sc.total = MaxRows
    /\ Len(preds_log[InitDir]) = MaxRows
    /\ Len(metrics_log[InitDir]) < MaxRows

IsPrefix(p, q) == Len(p) <= Len(q) /\ \A j \in 1..Len(p) : p[j] = q[j]

\* C8: truncate_to_budget keeps repo, commit, version and char_budget and
\* returns the longest prefix of the input lines, each line as it was, whose
\* render fits char_budget
C8_TruncationKeepsLines ==
    tout # Nothing =>
        LET r == tout[1]
        IN /\ r.repo = tin.repo
           /\ r.commit = tin.commit
           /\ r.version = tin.version
           /\ r.char_budget = tin.char_budget
           /\ IsPrefix(r.lines, tin.lines)
           /\ Len(Join(r.lines)) <= tin.char_budget
           /\ \A m \in (Len(r.lines) + 1)..Len(tin.lines) :
                  Len(Join(SubSeq(tin.lines, 1, m))) > tin.char_budget

\* lines were dropped and lines were kept
C8_Witness ==
    /\ tout # Nothing
    /\ Len(tout[1].lines) > 0
    /\ Len(tout[1].lines) < Len(tin.lines)
    /\ tin.version = 1

\* C11: a step taken while a candidate is being scored never ends the run: an
\* error of the scorer is absorbed and the tuner goes on with this candidate's
\* result or the next candidate
C11_ScoringErrorSemantics ==
    [][(pc \in {"score", "flush"} /\ sc.dir # InitDir) =>
          pc' \in {"score", "flush", "cand", "checkpoint"}]_vars

\* the step that skips a round changes nothing but completed_iterations
EmptyRoundFrame ==
    (pc = "loop" /\ pc' = "saving") =>
        /\ state' = [state EXCEPT !.completed_iterations = t]
        /\ best' = best
        /\ best_score' = best_score
        /\ version_files' = version_files
        /\ cont' = "next"

\* the save that follows persists the state and the loop goes to the next t
RoundPersisted ==
    (pc = "saving" /\ cont = "next" /\ pc' = "loop") =>
        /\ state.completed_iterations = t
        /\ state_file' = Snapshot(state)
        /\ t' = t + 1

\* C12: when the proposer returns no usable candidate in iteration t, the
\* iteration is persisted as completed with history, best_version and
\* best_score unchanged, and the loop advances to t + 1
C12_EmptyProposerRound == [][EmptyRoundFrame /\ RoundPersisted]_vars

\* every round of the run was empty and the loop is past the last one
C12_Witness ==
    /\ pc = "loop"
    /\ config.iterations >= 1
    /\ t = config.iterations + 1
    /\ state_file.status = "ok"
    /\ state_file.data[1].completed_iterations = config.iterations
    /\ Len(state_file.data[1].history) = 1

\* a resumed run loads the persisted state and the guidance at best_version
ResumeLoads ==
    (pc \in {"idle", "done"} /\ pc' = "loop") =>
        /\ state' = state_file.data[1]
        /\ best' = version_files[state_file.data[1].best_version]
        /\ best_score' = state_file.data[1].best_score
        /\ t' = state_file.data[1].completed_iterations + 1

\* the loop is always at the iteration after the last persisted one
LoopPosition ==
    /\ pc = "loop" =>
          /\ state_file.status = "ok"
          /\ t = state_file.data[1].completed_iterations + 1
    /\ (pc \in {"cand", "checkpoint"} \/ (pc \in {"score", "flush"} /\ sc.dir # InitDir)) =>
          /\ state_file.status = "ok"
          /\ t = state_file.data[1].completed_iterations + 1
          /\ t <= config.iterations
    /\ pc = "done" =>
          /\ state_file.status = "ok"
          /\ state_file.data[1].completed_iterations >= config.iterations

\* completed_iterations goes up by one at a time and never past T
CompletedStepsUp ==
    (/\ state_file.status = "ok"
     /\ state_file'.status = "ok"
     /\ state_file'.data[1].completed_iterations # state_file.data[1].completed_iterations)
        => /\ state_file'.data[1].completed_iterations
                  = state_file.data[1].completed_iterations + 1
           /\ state_file'.data[1].completed_iterations <= config.iterations

\* C13: a run that finds a TuningState and its best guidance loads them, runs
\* the iterations completed_iterations + 1 .. T once each in increasing order
\* and none at or below completed_iterations, and returns with
\* completed_iterations = max(previous completed_iterations, T)
C13_ResumePosition ==
    /\ []LoopPosition
    /\ [][ResumeLoads /\ CompletedStepsUp]_vars
    /\ (pc \in Running) ~> (pc = "done")

\* a run that resumed after an earlier run had returned is scoring a
\* candidate of iteration 2
C13_Witness ==
    /\ obs.completions >= 1
    /\ pc = "score"
    /\ sc.dir # InitDir
    /\ t = 2
    /\ state_file.data[1].completed_iterations = 1

\* ---------------------------------------------------------------------------
\* The agent-run driver
\* ---------------------------------------------------------------------------

\* C14: when the agent call has returned a non-empty diff and the container
\* also has changes, the driver's result is the agent-returned diff; stated
\* here for an agent diff within MAX_PATCH_SIZE that is larger than the pipe
\* of the result queue.
C14_AgentDiffWins ==
    (/\ run.pc = "returned"
     /\ run.kind = "returned"
     /\ run.queue # Nothing
     /\ run.agent_patch.len > PipeCapacity
     /\ run.agent_patch.len <= MAX_PATCH_SIZE
     /\ run.diff > 0) => run.result = run.agent_patch

\* the driver stops a running container
DriverStops ==
    /\ run.pc # "idle" /\ run'.pc # "idle"
    /\ run.container = "running"
    /\ run'.container = "stopped"

\* the driver probes the container
DriverProbes ==
    /\ run.pc # "idle" /\ run'.pc # "idle"
    /\ ~run.probed
    /\ run'.probed

\* C15: on the timeout path the child is dead when the container is probed, the
\* driver stops no container before it has probed it, and a non-empty probe
\* result of at most MAX_PATCH_SIZE characters is what the driver returns.
C15_ProbeBeforeStop ==
    /\ [][(DriverProbes => run.child = "dead") /\ (DriverStops => run.probed)]_vars
    /\ []((/\ run.pc = "returned"
           /\ run.path = "timeout"
           /\ run.container_patch.len > 0
           /\ run.container_patch.len <= MAX_PATCH_SIZE) => run.result = run.container_patch)

C15_Witness ==
    /\ run.pc = "returned"
    /\ run.path = "timeout"
    /\ run.container = "stopped"
    /\ run.result.src = "container"
    /\ run.result = run.container_patch

C17_ContainerRelease ==
    run.pc = "returned" => run.container # "running"

\* C18: on every exit path the returned patch has at most MAX_PATCH_SIZE
\* characters.
C18_PatchSizeLimit ==
    run.pc = "returned" => run.result.len <= MAX_PATCH_SIZE

C18_Witness ==
    /\ run.pc = "returned"
    /\ run.path = "timeout"
    /\ run.container_patch.len > MAX_PATCH_SIZE
    /\ run.traj_file > MAX_PATCH_SIZE
    /\ run.result = NoPatch

\* ---------------------------------------------------------------------------
\* The orchestrator and the LLM client
\* ---------------------------------------------------------------------------

\* C19: when tuning one repo raises, run_experiment goes on: the repo is left
\* out of tuning_completed and the loop moves to the next repo (and from the
\* last repo to Phase 2).
C19_RepoFaultIsolation ==
    [][(/\ orch.pc = "tune"
        /\ orch'.pc # "idle"
        /\ orch'.failed # orch.failed) =>
            /\ orch'.pc = "tune"
            /\ orch'.i = orch.i + 1
            /\ orch'.tuning_completed = orch.tuning_completed]_vars

\* the wait the retry policy prescribes after the k-th attempt has failed
PrescribedWait(k, r) ==
    IF r.kind = "429" /\ 2 ^ (k - 1) < 10 THEN 10 ELSE 2 ^ (k - 1)

Failed(r) == r.kind \in {"429", "400", "500", "no_response"}

\* at most 4 attempts, every attempt but the last one made has failed, one
\* sleep of the prescribed length after each of the first three failures, and
\* when the call is over one sleep less than attempts
RetryBookkeeping ==
    llm.pc # "idle" =>
        /\ Len(llm.responses) <= 4
        /\ Len(llm.sleeps) <= 3
        /\ \A k \in 1..(Len(llm.responses) - 1) : Failed(llm.responses[k])
        /\ \A k \in 1..Len(llm.sleeps) :
              /\ k <= Len(llm.responses)
              /\ llm.sleeps[k] = PrescribedWait(k, llm.responses[k])
        /\ llm.pc \in {"returned", "raised"} => Len(llm.sleeps) = Len(llm.responses) - 1

\* the call returns on a usable answer, and raises RuntimeError after four
\* failures, with the status and the body cut to 1200 characters when the
\* last failure was a 4xx
RetryOutcome ==
    /\ llm.pc = "returned" => llm.responses[Len(llm.responses)].kind = "ok"
    /\ (llm.pc = "raised" /\ llm.raised.type = "RuntimeError") =>
          /\ Len(llm.responses) = 4
          /\ \A k \in 1..4 : Failed(llm.responses[k])
          /\ llm.responses[4].kind \in {"429", "400"} =>
                /\ llm.raised.status = llm.responses[4].kind
                /\ llm.raised.body = IF llm.responses[4].body > 1200
                                     THEN 1200 ELSE llm.responses[4].body
    /\ (llm.pc # "idle" /\ Len(llm.responses) = 4 /\ Failed(llm.responses[4])) =>
          llm.pc \in {"post", "raised"}

\* C20: chat_completion makes at most 4 attempts, returns on the first usable
\* answer, sleeps 2^attempt seconds after a failed attempt (at least 10 after a
\* 429) but not after the fourth, raises RuntimeError with the truncated 4xx
\* body after four failures, and always comes to an end.
C20_RetryPolicy ==
    /\ [](RetryBookkeeping /\ RetryOutcome)
    /\ (llm.pc \in {"post", "sleep"}) ~> (llm.pc \in {"returned", "raised"})

C20_Witness ==
    /\ llm.pc = "raised"
    /\ llm.raised.type = "RuntimeError"
    /\ llm.sleeps = <<10, 2, 4>>
    /\ llm.responses[4].kind = "400"
    /\ llm.responses[4].body = 1201
    /\ llm.raised.body = 1200

\* the rate the claim prescribes for a harness result: resolved/total, 0 when
\* total is 0
PrescribedRate(h) == IF h.total = 0 THEN <<0, 1>> ELSE <<h.resolved, h.total>>

\* C21: the summary has a delta exactly when both conditions have a rate, and
\* then delta.absolute is the tuned_context rate minus the no_context rate.
C21_ExperimentDelta ==
    orch.pc = "returned" =>
        LET nc == orch.harness[1]
            tc == orch.harness[2]
            delta == orch.summary[1].delta
        IN /\ (delta # Nothing) <=> (~nc.error /\ ~tc.error)
           /\ delta # Nothing =>
                /\ delta[1][2] > 0
                /\ delta[1][1] * (PrescribedRate(tc)[2] * PrescribedRate(nc)[2])
                     = (PrescribedRate(tc)[1] * PrescribedRate(nc)[2]
                          - PrescribedRate(nc)[1] * PrescribedRate(tc)[2]) * delta[1][2]

C21_Witness ==
    /\ orch.pc = "returned"
    /\ orch.harness[1] = [rc |-> 0, error |-> FALSE, resolved |-> 1, total |-> 2]
    /\ orch.harness[2] = [rc |-> 0, error |-> FALSE, resolved |-> 1, total |-> 1]
    /\ orch.summary[1].delta # Nothing
    /\ orch.summary[1].delta[1][1] > 0

\* C30: every agent run of Phase 2 is for a repo in tuning_completed, gets no
\* guidance under no_context, and under tuned_context gets the render of the
\* repo's tuned best guidance.
C30_Phase2Scope ==
    orch.pc # "idle" =>
        \A r \in orch.runs :
            /\ \E k \in 1..Len(orch.tuning_completed) : orch.tuning_completed[k] = r.repo
            /\ r.condition = "no_context" => r.context_md = Nothing
            /\ r.condition = "tuned_context" =>
                  r.context_md = <<orch.guidance_files[r.repo]>>

\* ---------------------------------------------------------------------------
\* The agent prompt
\* ---------------------------------------------------------------------------

\* C22: with a non-empty guidance text the task is the five lines start
\* sentinel, guidance text, end sentinel, blank line, problem statement; with
\* no guidance text or an empty one it is the problem statement unchanged.
C22_PromptWireFormat ==
    prompt.pc = "returned" =>
        IF prompt.context_md # Nothing /\ Len(prompt.context_md[1]) > 0
        THEN prompt.task = Join(<<CONTEXT_BLOCK_START, prompt.context_md[1],
                                  CONTEXT_BLOCK_END, <<>>, prompt.problem_statement>>)
        ELSE prompt.task = prompt.problem_statement

C22_Witness ==
    /\ prompt.pc = "returned"
    /\ prompt.context_md = <<<<"a", NL>>>>
    /\ prompt.problem_statement = <<"a", "a">>
    /\ Len(prompt.task) = Len(CONTEXT_BLOCK_START) + Len(CONTEXT_BLOCK_END) + 8

\* ---------------------------------------------------------------------------
\* Configuration
\* ---------------------------------------------------------------------------

TuningFiles == <<state_file, version_files, best_file, preds_log, metrics_log>>

\* C23: a TuningConfig exists only with 0 <= iterations <= 20,
\* candidates_per_iter > 0 and tasks_per_score > 0; a rejected build changes
\* no state file, guidance version or log, and no tuning step follows it.
C23_ConfigValidation ==
    /\ [](/\ config.iterations \in 0..20
          /\ config.candidates_per_iter > 0
          /\ config.tasks_per_score > 0)
    /\ [][(pc' = "rejected" => UNCHANGED TuningFiles)
            /\ (pc = "rejected" => pc' \in {"rejected", "idle", "configured"})]_vars

C23_Witness ==
    /\ pc = "rejected"
    /\ state_file.status = "ok"
    /\ Len(state_file.data[1].history) > 1

\* ---------------------------------------------------------------------------
\* The logs of the scorer and the history of the tuner
\* ---------------------------------------------------------------------------

IdSeq(log) == [j \in 1..Len(log) |-> log[j].instance_id]

\* C24: whenever the scorer is between two tasks or has returned, also after
\* an interruption and a resume, the predictions log and the metrics log hold
\* records of the same instance ids in the same (input) order.
C24_PerTaskFlush ==
    pc \in {"score", "returned"} =>
        \A d \in Dirs :
            /\ IdSeq(preds_log[d]) = IdSeq(metrics_log[d])
            /\ \A j \in 1..Len(preds_log[d]) : preds_log[d][j].instance_id = j

\* the step appends an event to the history in memory
EventAppended ==
    /\ pc = "score"
    /\ Len(state'.history) = Len(state.history) + 1

\* every task this invocation of the scorer has run has its metrics record
RunTasksFlushed ==
    \A j \in 1..load_instances(config.tasks_per_score) :
        j \notin DOMAIN sc.completed => j \in LogIds(metrics_log[sc.dir])

HistoryShape(history) ==
    /\ Len(history) > 0
    /\ history[1].type = "init"
    /\ history[1].version = 0
    /\ \A j \in 2..Len(history) : history[j].type = "candidate"

EventsOfCompleted(st) ==
    \A j \in 1..Len(st.history) :
        st.history[j].type = "candidate" => st.history[j].iteration \in 1..st.completed_iterations

\* best_score and best_version of a snapshot are those of its own events
BestOfPersisted(st) ==
    /\ BestIsMax(st)
    /\ st.history # <<>> => st.best_version = st.history[EarliestMax(st.history)].version

\* a snapshot that replaces another adds the events of the one iteration it
\* records as the last completed, and nothing else
SnapshotAddsOneIteration ==
    (/\ state_file'.status = "ok"
     /\ state_file' # state_file
     /\ obs.persisted # <<>>)
        => LET st == state_file'.data[1]
           IN /\ IsPrefix(obs.persisted, st.history)
              /\ \A j \in (Len(obs.persisted) + 1)..Len(st.history) :
                     st.history[j].iteration = st.completed_iterations

\* C27: in every snapshot of tuning_state.json the candidate events belong to
\* iterations 1..completed_iterations, best_version and best_score are those of
\* the persisted events, while an iteration is under way the snapshot still
\* records the iteration before it, and a new snapshot adds only the events of
\* the iteration it records as completed
C27_CheckpointConsistency ==
    /\ [](state_file.status = "ok" =>
            /\ EventsOfCompleted(state_file.data[1])
            /\ BestOfPersisted(state_file.data[1]))
    /\ []((pc \in {"cand", "checkpoint"} \/ (pc \in {"score", "flush"} /\ sc.dir # InitDir)) =>
            /\ state_file.status = "ok"
            /\ state_file.data[1].completed_iterations = t - 1
            /\ state_file.data[1].history = obs.persisted)
    /\ [][SnapshotAddsOneIteration]_vars

\* the second iteration is under way with an event in memory that the snapshot
\* of the first iteration does not hold
C27_Witness ==
    /\ pc = "checkpoint"
    /\ t = 2
    /\ state_file.status = "ok"
    /\ state_file.data[1].completed_iterations = 1
    /\ Len(state_file.data[1].history) >= 2
    /\ Len(state.history) > Len(state_file.data[1].history)

\* a step of the running process leaves the version file of its current best as
\* it is
BestFileKept ==
    (/\ pc \in Running
     /\ pc' \in Running
     /\ best # NoGuidance
     /\ best.version \in DOMAIN version_files)
        => /\ best.version \in DOMAIN version_files'
           /\ version_files'[best.version] = version_files[best.version]

\* C28: when the tuning loop has returned, best_guidance.json holds the content
\* of versions/v<best_version>.json for the best_version of the persisted
\* TuningState, and no step of the loop overwrites the version file of the
\* current best
C28_FinalBestFile ==
    /\ [](pc = "done" =>
            /\ state_file.status = "ok"
            /\ state_file.data[1].best_version \in DOMAIN version_files
            /\ best_file = Some(version_files[state_file.data[1].best_version]))
    /\ [][BestFileKept]_vars

\* the loop has returned with an adopted candidate as the best, after a later
\* candidate was scored and not adopted
C28_Witness ==
    /\ pc = "done"
    /\ state_file.status = "ok"
    /\ state_file.data[1].best_version > 0
    /\ \E j \in 1..Len(state_file.data[1].history) :
         state_file.data[1].history[j].version > state_file.data[1].best_version
    /\ best_file = Some(version_files[state_file.data[1].best_version])

\* a step of a run with a caller-supplied directory leaves a trajectory file
\* that exists in place; only the child that saves its own trajectory writes it
NamedTrajectoryKept ==
    (/\ run.pc # "idle"
     /\ run'.pc # "idle"
     /\ run.traj_dir
     /\ run.traj_exists)
        => /\ run'.traj_exists
           /\ \/ run'.traj_file = run.traj_file
              \/ /\ run.child = "working"
                 /\ run.kind = "returned"
                 /\ run'.traj_file = run.agent_traj

CompletedKept ==
    (orch.pc # "idle" /\ orch'.pc # "idle") =>
        /\ IsPrefix(orch.tuning_completed, orch'.tuning_completed)
        /\ orch.eval_completed \subseteq orch'.eval_completed

\* a step that adds to tuning_completed adds the repo at hand, after its tuning
\* returned a guidance and its best_guidance.json was written
TunedAfterGuidance ==
    (/\ orch.pc # "idle"
     /\ orch'.pc # "idle"
     /\ orch'.tuning_completed # orch.tuning_completed)
        => /\ orch.pc = "tuned"
           /\ orch'.tuning_completed = Append(orch.tuning_completed, orch.repos[orch.i])
           /\ orch.repos[orch.i] \in DOMAIN orch.guidance_map
           /\ orch.repos[orch.i] \in DOMAIN orch.guidance_files
           /\ orch.guidance_files[orch.repos[orch.i]] = orch.guidance_map[orch.repos[orch.i]]

PredictionOf(condition, repo, instance) ==
    [condition |-> condition, repo |-> repo, instance |-> instance]

\* a step that starts an agent run starts it for an instance whose pair is not
\* in eval_completed and that has no record in the condition's log
RunsOnlyMissing ==
    (/\ orch.pc # "idle"
     /\ orch'.pc # "idle"
     /\ orch'.runs # orch.runs
     /\ orch.runs \subseteq orch'.runs)
        => \A r \in orch'.runs \ orch.runs :
              /\ <<r.repo, r.condition>> \notin orch.eval_completed
              /\ ~BagIn(PredictionOf(r.condition, r.repo, r.instance), orch.preds)

\* a step that adds a pair to eval_completed adds the pair at hand, and every
\* instance of its repo has a record in the condition's log
EvalMarkedWhenRecorded ==
    (/\ orch.pc # "idle"
     /\ orch'.pc # "idle"
     /\ orch'.eval_completed # orch.eval_completed)
        => /\ orch'.eval_completed = orch.eval_completed \cup {eval_key(orch)}
           /\ \A n \in 1..orch.n_inst :
                 BagIn(PredictionOf(conditions[orch.c], orch.eval_repos[orch.j], n),
                       orch'.preds)

\* C32: across kills and resumes no agent run is started for an instance of a
\* pair in eval_completed or with a record in the condition's prediction log,
\* each log holds at most one record for an instance, and a pair enters
\* eval_completed only when every instance of the repo has a record
C32_Phase2Resume ==
    /\ [][RunsOnlyMissing]_vars
    /\ [][EvalMarkedWhenRecorded]_vars
    /\ [](orch.pc # "idle" =>
            \A r \in BagToSet(orch.preds) : CopiesIn(r, orch.preds) = 1)

\* a resumed call has passed over the first instance of a repo, whose record
\* an earlier call left in the log, and is at the second
C32_Witness ==
    /\ orch.pc = "eval"
    /\ orch.j <= Len(orch.eval_repos)
    /\ orch.k = 2
    /\ orch.n_inst = 2
    /\ orch.runs = {}
    /\ <<orch.eval_repos[orch.j], 1>> \in orch.completed_ids
    /\ eval_key(orch) \notin orch.eval_completed

\* C33: when the harness invocation of a condition fails, the summary has no
\* numeric rate for that condition and no delta, and the experiment still
\* goes through the other condition and writes the summary.
C33_HarnessFailure ==
    orch.pc = "returned" =>
        /\ Len(orch.eval_results) = Len(conditions)
        /\ orch.summary # Nothing
        /\ \A n \in 1..Len(conditions) :
              orch.harness[n].rc # 0 =>
                  /\ orch.eval_results[n].error
                  /\ orch.summary[1].delta = Nothing

\* ---------------------------------------------------------------------------
\* The default evaluator
\* ---------------------------------------------------------------------------

\* C34: for an empty or whitespace-only patch the default evaluator returns
\* false without a harness call; for any other patch it calls the harness, a
\* harness that raised, timed out, was not found or exited with a failure
\* counts as false, and a pass is a patch the harness found resolved.
C34_DefaultEvaluator ==
    evaluation.pc = "returned" =>
        /\ is_blank(evaluation.patch) => (~evaluation.called /\ ~evaluation.passed)
        /\ ~is_blank(evaluation.patch) =>
              /\ evaluation.called
              /\ (evaluation.harness.kind # "completed" \/ evaluation.harness.returncode # 0)
                    => ~evaluation.passed
              /\ evaluation.passed => evaluation.harness.resolved

\* ---------------------------------------------------------------------------
\* The proposer's parser
\* ---------------------------------------------------------------------------

\* the entries among the first k that are a list of lines or an object with
\* a lines list
WellFormed(arr, k) ==
    {n \in 1..Len(first_k(arr, k)) : arr[n].kind \in {"dict", "list"} }

\* C35: a call of the parser never ends in an error; it returns at most K
\* candidates, one for each well-formed entry among the first K and none for
\* a malformed one, none at all for output without a JSON array; each
\* candidate is within the budget and keeps the incumbent's repo, commit and
\* char_budget.
C35_ProposerParsing ==
    parsing.pc = "returned" =>
        /\ ~parsing.raised
        /\ Len(parsing.candidates) <= parsing.k
        /\ Len(parsing.candidates) = Cardinality(WellFormed(parsing.raw.arr, parsing.k))
        /\ ~parsing.raw.json => parsing.candidates = <<>>
        /\ \A n \in 1..Len(parsing.candidates) :
              /\ parsing.candidates[n].repo = parsing.base.repo
              /\ parsing.candidates[n].commit = parsing.base.commit
              /\ parsing.candidates[n].char_budget = parsing.base.char_budget
              /\ truncate_to_budget(parsing.candidates[n]) = parsing.candidates[n]

\* ---------------------------------------------------------------------------
\* The scorer's predictions log
\* ---------------------------------------------------------------------------

\* C36: every prediction the scorer has taken from preds.jsonl, to count it
\* instead of running the agent, was recorded while scoring a guidance with
\* the same text as the one it is scoring now.
C36_ScorerLogIsolation ==
    pc = "score" =>
        \A iid \in DOMAIN sc.completed :
            /\ <<sc.dir, iid>> \in DOMAIN obs.recorded_for
            /\ obs.recorded_for[<<sc.dir, iid>>] = sc.guidance_text

\* ---------------------------------------------------------------------------
\* Concurrent agent runs
\* ---------------------------------------------------------------------------

\* C37: what a call's container probe returned comes from a container that
\* call started, and a call's timeout cleanup has stopped no container of
\* another call.
C37_RunIsolation ==
    \A r \in Callers :
        /\ Host.calls[r].probe.owner \in {0, r}
        /\ Host.calls[r].stopped \subseteq {r}

\* ---------------------------------------------------------------------------
\* The ScoreResult
\* ---------------------------------------------------------------------------

\* the patch preds.jsonl holds for a task
LoggedPatch(dir, iid) == read_completed(preds_log[dir])[iid]

\* the tasks of the call whose logged patch is not blank
NonEmptyTasks(frame) ==
    {iid \in 1..frame.n : patch_non_empty(LoggedPatch(frame.dir, iid))}

\* the tasks of the call whose logged patch the evaluator has passed
PassedTasks(frame) ==
    {iid \in NonEmptyTasks(frame) :
        /\ <<iid, LoggedPatch(frame.dir, iid)>> \in DOMAIN memo.eval
        /\ memo.eval[<<iid, LoggedPatch(frame.dir, iid)>>]}

\* C38: when the scorer returns, 0 <= resolved <= total, non_empty_patches <=
\* total, total is the number of loaded tasks and at most n_tasks, the rate is
\* resolved/total, and resolved <= non_empty_patches; non_empty_patches is the
\* number of tasks with a non-blank patch and (the evaluator repeating its
\* verdicts) resolved is the number of tasks whose patch passes, whether the
\* task was run by this call or taken from the log.
C38_ScoreResultBounds ==
    pc = "returned" =>
        /\ 0 <= sc.resolved
        /\ sc.resolved <= sc.total
        /\ sc.non_empty_patches <= sc.total
        /\ sc.total = sc.n
        /\ sc.total <= config.tasks_per_score
        /\ sc.total <= MaxRows
        /\ Rate(sc.resolved, sc.total) = <<sc.resolved, sc.total>>
        /\ sc.resolved <= sc.non_empty_patches
        /\ sc.non_empty_patches = Cardinality(NonEmptyTasks(sc))
        /\ det => sc.resolved = Cardinality(PassedTasks(sc))

\* a call has returned that took one task from the log of an interrupted call
\* and ran the other; one patch passed
C38_Witness ==
    /\ pc = "returned"
    /\ DOMAIN sc.completed = {1}
    /\ sc.total = 2
    /\ sc.resolved = 1
    /\ sc.non_empty_patches = 2
    /\ det

\* ---------------------------------------------------------------------------
\* The empty task set
\* ---------------------------------------------------------------------------

\* C39: when the tasks file has no rows the scorer returns a result with rate
\* 0 and total 0, and the tuner, once it has used the result, has raised
\* nothing and has appended the init or candidate event with score 0.
C39_EmptyTaskSet ==
    (scoring.pc # "idle" /\ scoring.rows = 0) =>
        /\ scoring.result.rate = <<0, 1>>
        /\ scoring.result.total = 0
        /\ scoring.pc # "raised"
        /\ scoring.pc = "recorded" =>
              /\ scoring.event # Nothing
              /\ scoring.event[1].type = scoring.caller
              /\ scoring.event[1].score = <<0, 1>>

====
